---- MODULE Spec2Model ----
(***************************************************************************)
(* Matrix room event authorization (ruma-state-res, event_auth.rs).        *)
(*                                                                         *)
(* The functions of event_auth.rs are pure: each specification below draws *)
(* the arguments of one function from bounded sets (Init), and its action  *)
(* applies the function and records what it returned.  auth_check is       *)
(* taken check by check: its first action runs from the entry to the check *)
(* of the sender's membership, and one action follows for each later check *)
(* (sender power level, invite level, send gate, power levels,             *)
(* redaction), every one of them returning or handing on to the next.      *)
(*                                                                         *)
(* Values.  Option<T> is a sequence of length 0 (None) or 1 (Some).  A     *)
(* JSON content that serde cannot deserialize into the Rust type is the    *)
(* record [ok |-> FALSE]; a content that deserializes carries ok |-> TRUE  *)
(* and its fields, an absent JSON key being None.  A JSON value of the     *)
(* wrong shape for a string enum (a number, null, ...) is Malformed.       *)
(* Every member event of the state carries a membership key, as the code   *)
(* expects of the events it is given.                                      *)
(***************************************************************************)
EXTENDS Integers, Sequences, FiniteSets, TLC

VARIABLES
    args,   \* the arguments of the call under check
    locals, \* the local variables the call has bound so far
    ret,    \* what the call returned; NotReturned before the call
    pc      \* "call" before the function has run, "done" after; auth_check
            \* passes through the positions of its checks in between

vars == <<args, locals, ret, pc>>

----------------------------------------------------------------------------
(* Option<T> *)

None == <<>>
Some(x) == <<x>>
is_some(o) == o # None
is_none(o) == o = None
unwrap(o) == o[1]

\* PartialOrd of Option<&Int>: None is below every Some, Some compares inside.
OptLt(a, b) == /\ is_some(b)
               /\ (is_none(a) \/ unwrap(a) < unwrap(b))
OptGt(a, b) == OptLt(b, a)

\* BTreeMap::get
get(map, key) == IF key \in DOMAIN map THEN Some(map[key]) ELSE None

----------------------------------------------------------------------------
(* Identifiers and JSON values *)

Users == {"@alice:a", "@bob:b"}

Malformed == "~malformed"
NotReturned == "~"

MembershipStates == {"join", "leave", "invite", "ban", "knock"}
JoinRules == {"invite", "public", "knock"}

OkTrue == "Ok(true)"
OkFalse == "Ok(false)"
ErrDeserialization == "Err(Deserialization)"
Ok(b) == IF b THEN OkTrue ELSE OkFalse

\* serde_json::from_value::<MembershipState> / ::<JoinRule>: a string
\* deserializes (the known variants are the ones the rules name), any other
\* JSON value is an error.
from_value_ok(v) == v # Malformed

----------------------------------------------------------------------------
(* Power levels *)

DefaultPowerLevel == 50
DefaultZeroLevel == 0
CreatorLevel == 100

EventTypes == {"m.room.power_levels", "m.room.name"}

\* PowerLevelsEventContent::default(): no users, no events, the thresholds at
\* their defaults.
PowerLevelsDefault ==
    [users |-> <<>>, events |-> <<>>,
     users_default |-> DefaultZeroLevel, events_default |-> DefaultZeroLevel,
     state_default |-> DefaultPowerLevel, ban |-> DefaultPowerLevel,
     redact |-> DefaultPowerLevel, kick |-> DefaultPowerLevel,
     invite |-> DefaultPowerLevel, notifications_room |-> DefaultPowerLevel]

or_default(o, d) == IF is_some(o) THEN unwrap(o) ELSE d

\* serde_json::from_value::<PowerLevelsEventContent> of a content that
\* deserializes: an absent key takes the field's default.
PowerLevelsFromValue(c) ==
    [users |-> c.users, events |-> c.events,
     users_default |-> or_default(c.users_default, PowerLevelsDefault.users_default),
     events_default |-> or_default(c.events_default, PowerLevelsDefault.events_default),
     state_default |-> or_default(c.state_default, PowerLevelsDefault.state_default),
     ban |-> or_default(c.ban, PowerLevelsDefault.ban),
     redact |-> or_default(c.redact, PowerLevelsDefault.redact),
     kick |-> or_default(c.kick, PowerLevelsDefault.kick),
     invite |-> or_default(c.invite, PowerLevelsDefault.invite),
     notifications_room |-> or_default(c.notifications_room,
                                       PowerLevelsDefault.notifications_room)]

----------------------------------------------------------------------------
(* verify_third_party_invite *)

\* the state key of the current event not compared with the token
verify_third_party_invite_any_state_key(target_user, sender, tp_id, current_third_party_invite) ==
    IF target_user # Some(tp_id.mxid) THEN FALSE
    ELSE IF is_none(current_third_party_invite) THEN FALSE
    ELSE LET current_tpid == unwrap(current_third_party_invite) IN
         IF sender # current_tpid.sender THEN FALSE
         ELSE IF ~current_tpid.content.ok THEN FALSE
         ELSE \/ \E i \in 1..Len(or_default(current_tpid.content.public_keys, <<>>)) :
                    unwrap(current_tpid.content.public_keys)[i] = tp_id.token
              \/ current_tpid.content.public_key = tp_id.token

\* tp_id: [mxid, token] (ThirdPartyInvite.signed); current: Option of the
\* m.room.third_party_invite event [state_key, sender, content].
verify_third_party_invite(target_user, sender, tp_id, current_third_party_invite) ==
    IF target_user # Some(tp_id.mxid) THEN FALSE
    ELSE IF is_none(current_third_party_invite) THEN FALSE
    ELSE LET current_tpid == unwrap(current_third_party_invite) IN
         IF current_tpid.state_key # Some(tp_id.token) THEN FALSE
         ELSE IF sender # current_tpid.sender THEN FALSE
         ELSE IF ~current_tpid.content.ok THEN FALSE
         ELSE \/ \E i \in 1..Len(or_default(current_tpid.content.public_keys, <<>>)) :
                    unwrap(current_tpid.content.public_keys)[i] = tp_id.token
              \/ current_tpid.content.public_key = tp_id.token

----------------------------------------------------------------------------
(* valid_membership_change *)

\* The membership a member event of the state carries; Leave when there is
\* no such event.
current_membership(member_event) ==
    IF is_some(member_event) THEN unwrap(member_event).content.membership ELSE "leave"

sender_is_joined(a) == current_membership(a.sender_membership_event) = "join"

target_user_current_membership(a) == current_membership(a.target_user_membership_event)

power_levels_of(a) ==
    IF is_some(a.power_levels_event)
    THEN PowerLevelsFromValue(unwrap(a.power_levels_event).content)
    ELSE PowerLevelsDefault

sender_power(a) ==
    LET users == power_levels_of(a).users IN
    IF a.sender \in DOMAIN users THEN Some(users[a.sender])
    ELSE IF sender_is_joined(a) THEN Some(power_levels_of(a).users_default)
    ELSE None

target_power(a) ==
    LET users == power_levels_of(a).users IN
    IF a.target_user \in DOMAIN users THEN Some(users[a.target_user])
    ELSE IF a.content.membership = "join" THEN Some(power_levels_of(a).users_default)
    ELSE None

join_rules(a) ==
    IF is_some(a.join_rules_event) THEN unwrap(a.join_rules_event).content.join_rule
    ELSE "invite"

\* sender_power.filter(|&p| p >= &level).is_some()
power_at_least(p, level) == is_some(p) /\ unwrap(p) >= level

\* prev_event is the room's create event with no prev_events
is_bootstrap(prev_event) ==
    /\ is_some(prev_event)
    /\ unwrap(prev_event).event_type = "m.room.create"
    /\ unwrap(prev_event).prev_events = 0

\* || taken inside the && of the invite-only case
join_allowed_precedence(a) ==
    IF a.sender # a.target_user THEN FALSE
    ELSE IF target_user_current_membership(a) = "ban" THEN FALSE
    ELSE /\ join_rules(a) = "invite"
         /\ \/ target_user_current_membership(a) \in {"join", "invite"}
            \/ join_rules(a) = "public"

join_allowed(a) ==
    IF a.sender # a.target_user THEN FALSE
    ELSE IF target_user_current_membership(a) = "ban" THEN FALSE
    ELSE \/ /\ join_rules(a) = "invite"
            /\ target_user_current_membership(a) \in {"join", "invite"}
         \/ join_rules(a) = "public"

\* the target's being joined not looked at
invite_allowed_joined_target(a) ==
    IF is_some(a.content.third_party_invite) /\ unwrap(a.content.third_party_invite).ok
    THEN IF target_user_current_membership(a) = "ban" THEN FALSE
         ELSE verify_third_party_invite(Some(a.target_user), a.sender,
                                        unwrap(a.content.third_party_invite).signed,
                                        a.current_third_party_invite)
    ELSE IF \/ ~sender_is_joined(a)
            \/ target_user_current_membership(a) = "ban"
    THEN FALSE
    ELSE power_at_least(sender_power(a), power_levels_of(a).invite)

\* the sender's membership checked before the third-party invite
invite_allowed_sender_joined(a) ==
    IF ~sender_is_joined(a) THEN FALSE
    ELSE IF is_some(a.content.third_party_invite)
            /\ unwrap(a.content.third_party_invite).ok
    THEN IF target_user_current_membership(a) = "ban" THEN FALSE
         ELSE verify_third_party_invite(Some(a.target_user), a.sender,
                                        unwrap(a.content.third_party_invite).signed,
                                        a.current_third_party_invite)
    ELSE IF \/ target_user_current_membership(a) = "join"
            \/ target_user_current_membership(a) = "ban"
    THEN FALSE
    ELSE power_at_least(sender_power(a), power_levels_of(a).invite)

invite_allowed(a) ==
    IF is_some(a.content.third_party_invite) /\ unwrap(a.content.third_party_invite).ok
    THEN IF target_user_current_membership(a) = "ban" THEN FALSE
         ELSE verify_third_party_invite(Some(a.target_user), a.sender,
                                        unwrap(a.content.third_party_invite).signed,
                                        a.current_third_party_invite)
    ELSE IF \/ ~sender_is_joined(a)
            \/ target_user_current_membership(a) = "join"
            \/ target_user_current_membership(a) = "ban"
    THEN FALSE
    ELSE power_at_least(sender_power(a), power_levels_of(a).invite)

\* an unban not held to the ban level
leave_allowed_no_ban_level(a) ==
    IF a.sender = a.target_user
    THEN target_user_current_membership(a) \in {"join", "invite"}
    ELSE IF ~sender_is_joined(a) THEN FALSE
    ELSE /\ power_at_least(sender_power(a), power_levels_of(a).kick)
         /\ OptLt(target_power(a), sender_power(a))

\* one's own leave allowed from every membership but Leave
leave_allowed_not_left(a) ==
    IF a.sender = a.target_user
    THEN target_user_current_membership(a) # "leave"
    ELSE IF \/ ~sender_is_joined(a)
            \/ /\ target_user_current_membership(a) = "ban"
               /\ is_some(sender_power(a))
               /\ unwrap(sender_power(a)) < power_levels_of(a).ban
    THEN FALSE
    ELSE /\ power_at_least(sender_power(a), power_levels_of(a).kick)
         /\ OptLt(target_power(a), sender_power(a))

leave_allowed(a) ==
    IF a.sender = a.target_user
    THEN target_user_current_membership(a) \in {"join", "invite"}
    ELSE IF \/ ~sender_is_joined(a)
            \/ /\ target_user_current_membership(a) = "ban"
               /\ is_some(sender_power(a))
               /\ unwrap(sender_power(a)) < power_levels_of(a).ban
    THEN FALSE
    ELSE /\ power_at_least(sender_power(a), power_levels_of(a).kick)
         /\ OptLt(target_power(a), sender_power(a))

\* target_power <= sender_power
ban_allowed_not_strict(a) ==
    IF ~sender_is_joined(a) THEN FALSE
    ELSE /\ power_at_least(sender_power(a), power_levels_of(a).ban)
         /\ ~OptLt(sender_power(a), target_power(a))

ban_allowed(a) ==
    IF ~sender_is_joined(a) THEN FALSE
    ELSE /\ power_at_least(sender_power(a), power_levels_of(a).ban)
         /\ OptLt(target_power(a), sender_power(a))

\* The contents the function deserializes with `?` before it decides.
state_deserializes(a) ==
    /\ from_value_ok(a.content.membership)
    /\ is_some(a.sender_membership_event) =>
           from_value_ok(unwrap(a.sender_membership_event).content.membership)
    /\ is_some(a.target_user_membership_event) =>
           from_value_ok(unwrap(a.target_user_membership_event).content.membership)
    /\ is_some(a.power_levels_event) => unwrap(a.power_levels_event).content.ok
    /\ is_some(a.join_rules_event) =>
           from_value_ok(unwrap(a.join_rules_event).content.join_rule)

\* the early allow kept to the join it is meant for
valid_membership_change_join_bootstrap(a) ==
    IF ~state_deserializes(a) THEN ErrDeserialization
    ELSE IF is_bootstrap(a.prev_event) /\ a.content.membership = "join" THEN OkTrue
    ELSE CASE a.content.membership = "join" -> Ok(join_allowed(a))
           [] a.content.membership = "invite" -> Ok(invite_allowed(a))
           [] a.content.membership = "leave" -> Ok(leave_allowed(a))
           [] a.content.membership = "ban" -> Ok(ban_allowed(a))
           [] OTHER -> OkFalse

\* a knock judged as a join
valid_membership_change_knock_as_join(a) ==
    IF ~state_deserializes(a) THEN ErrDeserialization
    ELSE IF is_bootstrap(a.prev_event) THEN OkTrue
    ELSE CASE a.content.membership \in {"join", "knock"} -> Ok(join_allowed(a))
           [] a.content.membership = "invite" -> Ok(invite_allowed(a))
           [] a.content.membership = "leave" -> Ok(leave_allowed(a))
           [] a.content.membership = "ban" -> Ok(ban_allowed(a))
           [] OTHER -> OkFalse

valid_membership_change(a) ==
    IF ~state_deserializes(a) THEN ErrDeserialization
    ELSE IF is_bootstrap(a.prev_event) THEN OkTrue
    ELSE CASE a.content.membership = "join" -> Ok(join_allowed(a))
           [] a.content.membership = "invite" -> Ok(invite_allowed(a))
           [] a.content.membership = "leave" -> Ok(leave_allowed(a))
           [] a.content.membership = "ban" -> Ok(ban_allowed(a))
           [] OTHER -> OkFalse

----------------------------------------------------------------------------
(* check_power_levels *)

SomeTrue == "Some(true)"
SomeFalse == "Some(false)"
NoneResult == "None"
Panic == "panic"

\* power levels that do not deserialize taken for none
sender_power_level_creator_fallback(power_levels_event, room_create_event, sender) ==
    IF is_some(power_levels_event) /\ unwrap(power_levels_event).content.ok
    THEN LET content == unwrap(power_levels_event).content IN
         IF sender \in DOMAIN content.users THEN content.users[sender]
         ELSE PowerLevelsFromValue(content).users_default
    ELSE IF /\ is_some(room_create_event)
            /\ unwrap(room_create_event).content.ok
            /\ unwrap(room_create_event).content.creator = sender
         THEN CreatorLevel
         ELSE DefaultZeroLevel

\* auth_check's sender_power_level: the sender's users entry or users_default
\* of the room's power levels, 0 when their content does not deserialize;
\* without a power-levels event 100 for the room's creator and 0 for the rest.
sender_power_level(power_levels_event, room_create_event, sender) ==
    IF is_some(power_levels_event)
    THEN LET content == unwrap(power_levels_event).content IN
         IF content.ok
         THEN IF sender \in DOMAIN content.users THEN content.users[sender]
              ELSE PowerLevelsFromValue(content).users_default
         ELSE DefaultZeroLevel
    ELSE IF /\ is_some(room_create_event)
            /\ unwrap(room_create_event).content.ok
            /\ unwrap(room_create_event).content.creator = sender
         THEN CreatorLevel
         ELSE DefaultZeroLevel

\* old_level.is_some() && new_level.is_some() && old_level == new_level
level_unchanged(old_level, new_level) ==
    is_some(old_level) /\ is_some(new_level) /\ old_level = new_level

\* the new level not held against the sender's
level_too_big_old_only(old_level, new_level, user_level) ==
    OptGt(old_level, Some(user_level))

\* old_level > Some(&user_level) || new_level > Some(&user_level)
level_too_big(old_level, new_level, user_level) ==
    OptGt(old_level, Some(user_level)) \/ OptGt(new_level, Some(user_level))

\* the sender's own entry not exempted from the equal-level rule
users_denied_own_entry(old_state, new_state, sender, user_level) ==
    \E user \in DOMAIN old_state.users \cup DOMAIN new_state.users :
        LET old_level == get(old_state.users, user)
            new_level == get(new_state.users, user) IN
        /\ ~level_unchanged(old_level, new_level)
        /\ \/ old_level = Some(user_level)
           \/ level_too_big(old_level, new_level, user_level)

\* The UserId loop: some iteration returns Some(false).
users_denied(old_state, new_state, sender, user_level) ==
    \E user \in DOMAIN old_state.users \cup DOMAIN new_state.users :
        LET old_level == get(old_state.users, user)
            new_level == get(new_state.users, user) IN
        /\ ~level_unchanged(old_level, new_level)
        /\ \/ user # sender /\ old_level = Some(user_level)
           \/ level_too_big(old_level, new_level, user_level)

\* only the keys of the new events map walked
events_denied_new_keys(old_state, new_state, user_level) ==
    \E ev_type \in DOMAIN new_state.events :
        LET old_level == get(old_state.events, ev_type)
            new_level == get(new_state.events, ev_type) IN
        /\ ~level_unchanged(old_level, new_level)
        /\ level_too_big(old_level, new_level, user_level)

\* The EventType loop: some iteration returns Some(false).
events_denied(old_state, new_state, user_level) ==
    \E ev_type \in DOMAIN old_state.events \cup DOMAIN new_state.events :
        LET old_level == get(old_state.events, ev_type)
            new_level == get(new_state.events, ev_type) IN
        /\ ~level_unchanged(old_level, new_level)
        /\ level_too_big(old_level, new_level, user_level)

\* the notifications level limited in every room version
notifications_denied_any_version(room_version, old_state, new_state, user_level) ==
    /\ old_state.notifications_room # new_state.notifications_room
    /\ \/ old_state.notifications_room > user_level
       \/ new_state.notifications_room > user_level

notifications_denied(room_version, old_state, new_state, user_level) ==
    /\ room_version.limit_notifications_power_levels
    /\ old_state.notifications_room # new_state.notifications_room
    /\ \/ old_state.notifications_room > user_level
       \/ new_state.notifications_room > user_level

LevelNames ==
    {"users_default", "events_default", "state_default", "ban", "redact", "kick",
     "invite"}

\* serde_json::to_value of a PowerLevelsEventContent, as far as the level
\* names go: an object with a number under every one of them.
to_value(state) == [name \in LevelNames |-> Some(state[name])]

\* None when either object lacks the key, else the two levels.
get_deserialize_levels(old, new, name) ==
    IF is_none(old[name]) \/ is_none(new[name]) THEN None
    ELSE Some(<<unwrap(old[name]), unwrap(new[name])>>)

\* a level looked at only when the edit changes it
levels_denied_changed_only(old_state, new_state, user_level) ==
    \E lvl_name \in LevelNames :
        /\ old_state[lvl_name] # new_state[lvl_name]
        /\ \/ old_state[lvl_name] > user_level
           \/ new_state[lvl_name] > user_level

\* The loop over the level names: some iteration returns Some(false).
levels_denied(old_state, new_state, user_level) ==
    \E lvl_name \in LevelNames :
        LET lvls == get_deserialize_levels(to_value(old_state), to_value(new_state),
                                           lvl_name) IN
        /\ is_some(lvls)
        /\ \/ unwrap(lvls)[1] > user_level
           \/ unwrap(lvls)[2] > user_level

\* the first power levels of a room allowed before the state key is looked at
check_power_levels_first_allowed(a) ==
    IF is_none(a.previous_power_event) THEN SomeTrue
    ELSE IF a.power_event.state_key # Some("") THEN NoneResult
    ELSE IF ~a.power_event.content.ok THEN Panic
    ELSE IF ~unwrap(a.previous_power_event).content.ok THEN Panic
    ELSE LET user_content == PowerLevelsFromValue(a.power_event.content)
             current_content ==
                 PowerLevelsFromValue(unwrap(a.previous_power_event).content) IN
         IF users_denied(current_content, user_content, a.power_event.sender,
                         a.user_level)
         THEN SomeFalse
         ELSE IF events_denied(current_content, user_content, a.user_level)
         THEN SomeFalse
         ELSE IF notifications_denied(a.room_version, current_content, user_content,
                                      a.user_level)
         THEN SomeFalse
         ELSE IF levels_denied(current_content, user_content, a.user_level)
         THEN SomeFalse
         ELSE SomeTrue

\* a: [room_version, power_event, previous_power_event, user_level]
check_power_levels(a) ==
    IF a.power_event.state_key # Some("") THEN NoneResult
    ELSE IF is_none(a.previous_power_event) THEN SomeTrue
    ELSE IF ~a.power_event.content.ok THEN Panic
    ELSE IF ~unwrap(a.previous_power_event).content.ok THEN Panic
    ELSE LET user_content == PowerLevelsFromValue(a.power_event.content)
             current_content ==
                 PowerLevelsFromValue(unwrap(a.previous_power_event).content) IN
         IF users_denied(current_content, user_content, a.power_event.sender,
                         a.user_level)
         THEN SomeFalse
         ELSE IF events_denied(current_content, user_content, a.user_level)
         THEN SomeFalse
         ELSE IF notifications_denied(a.room_version, current_content, user_content,
                                      a.user_level)
         THEN SomeFalse
         ELSE IF levels_denied(current_content, user_content, a.user_level)
         THEN SomeFalse
         ELSE SomeTrue

----------------------------------------------------------------------------
(* auth_check *)

ErrInvalidPdu == "Err(InvalidPdu)"

\* auth_check has not returned: the next check is due.
Continue == "continue"

\* UserId::server_name and RoomId::server_name: the part after the colon.
server_name(id) ==
    CASE id \in {"@alice:a", "!room:a"} -> "a"
      [] id \in {"@bob:b", "!room:b"} -> "b"

\* EventId::server_name: an event id of the form $localpart:server has a
\* server name, one of the form $hash has none.
event_id_server_name(id) ==
    CASE id = "$event:a" -> Some("a")
      [] id = "$event:b" -> Some("b")
      [] id = "$hash" -> None

\* UserId::try_from(state_key)
user_id_ok(state_key) == state_key \in Users

\* k.starts_with('@')
starts_with_at(k) == k \in {"@alice:a", "@bob:b"}

KnownRoomVersions == {"1", "2", "3", "4", "5", "6"}

\* serde_json::from_value::<RoomVersionId>
room_version_id_ok(v) == v \in KnownRoomVersions

\* fetch_state: the event of the state snapshot under (event_type, state_key).
fetch_state(state, event_type, state_key) ==
    CASE event_type = "m.room.create" /\ state_key = "" -> state.create
      [] event_type = "m.room.power_levels" /\ state_key = "" -> state.power_levels
      [] event_type = "m.room.join_rules" /\ state_key = "" -> state.join_rules
      [] event_type = "m.room.member" /\ state_key \in DOMAIN state.members ->
             state.members[state_key]
      [] OTHER -> None

\* a creator of another server accepted
create_allowed_any_server(incoming_event) ==
    IF incoming_event.prev_events # 0 THEN FALSE
    ELSE IF ~room_version_id_ok(or_default(incoming_event.content.room_version, "1"))
    THEN FALSE
    ELSE is_some(incoming_event.content.creator)

\* 1. If type is m.room.create
create_allowed(incoming_event) ==
    IF incoming_event.prev_events # 0 THEN FALSE
    ELSE IF server_name(incoming_event.room_id) # server_name(incoming_event.sender)
    THEN FALSE
    ELSE IF ~room_version_id_ok(or_default(incoming_event.content.room_version, "1"))
    THEN FALSE
    ELSE is_some(incoming_event.content.creator)

\* 4. If type is m.room.aliases
aliases_allowed(incoming_event) ==
    incoming_event.state_key = Some(server_name(incoming_event.sender))

\* a state key that is no user id denied, the membership rules run on a user id
member_check_invalid_id_denied(a) ==
    LET incoming_event == a.incoming_event IN
    IF is_none(incoming_event.state_key) THEN OkFalse
    ELSE IF ~(/\ is_some(incoming_event.content.membership)
              /\ from_value_ok(unwrap(incoming_event.content.membership)))
    THEN OkFalse
    ELSE IF ~user_id_ok(unwrap(incoming_event.state_key)) THEN OkFalse
    ELSE LET target_user == unwrap(incoming_event.state_key) IN
         valid_membership_change(
             [target_user |-> target_user,
              target_user_membership_event |->
                  fetch_state(a.state, "m.room.member", target_user),
              sender |-> incoming_event.sender,
              sender_membership_event |->
                  fetch_state(a.state, "m.room.member", incoming_event.sender),
              content |-> [membership |-> unwrap(incoming_event.content.membership),
                           third_party_invite |->
                               incoming_event.content.third_party_invite],
              prev_event |-> a.prev_event,
              current_third_party_invite |-> a.current_third_party_invite,
              power_levels_event |-> fetch_state(a.state, "m.room.power_levels", ""),
              join_rules_event |-> fetch_state(a.state, "m.room.join_rules", "")])

\* a membership that does not parse handed on to valid_membership_change
member_check_unparsed_membership(a) ==
    LET incoming_event == a.incoming_event IN
    IF is_none(incoming_event.state_key) THEN OkFalse
    ELSE IF is_none(incoming_event.content.membership) THEN OkFalse
    ELSE IF ~user_id_ok(unwrap(incoming_event.state_key)) THEN ErrInvalidPdu
    ELSE LET target_user == unwrap(incoming_event.state_key) IN
         valid_membership_change(
             [target_user |-> target_user,
              target_user_membership_event |->
                  fetch_state(a.state, "m.room.member", target_user),
              sender |-> incoming_event.sender,
              sender_membership_event |->
                  fetch_state(a.state, "m.room.member", incoming_event.sender),
              content |-> [membership |-> unwrap(incoming_event.content.membership),
                           third_party_invite |->
                               incoming_event.content.third_party_invite],
              prev_event |-> a.prev_event,
              current_third_party_invite |-> a.current_third_party_invite,
              power_levels_event |-> fetch_state(a.state, "m.room.power_levels", ""),
              join_rules_event |-> fetch_state(a.state, "m.room.join_rules", "")])

\* The m.room.member branch: Ok(false) without a state key or a membership
\* that parses, InvalidPdu for a state key that is no user id, else what
\* valid_membership_change returns (its error propagated by `?`).
member_check(a) ==
    LET incoming_event == a.incoming_event IN
    IF is_none(incoming_event.state_key) THEN OkFalse
    ELSE IF ~(/\ is_some(incoming_event.content.membership)
              /\ from_value_ok(unwrap(incoming_event.content.membership)))
    THEN OkFalse
    ELSE IF ~user_id_ok(unwrap(incoming_event.state_key)) THEN ErrInvalidPdu
    ELSE LET target_user == unwrap(incoming_event.state_key) IN
         valid_membership_change(
             [target_user |-> target_user,
              target_user_membership_event |->
                  fetch_state(a.state, "m.room.member", target_user),
              sender |-> incoming_event.sender,
              sender_membership_event |->
                  fetch_state(a.state, "m.room.member", incoming_event.sender),
              content |-> [membership |-> unwrap(incoming_event.content.membership),
                           third_party_invite |->
                               incoming_event.content.third_party_invite],
              prev_event |-> a.prev_event,
              current_third_party_invite |-> a.current_third_party_invite,
              power_levels_event |-> fetch_state(a.state, "m.room.power_levels", ""),
              join_rules_event |-> fetch_state(a.state, "m.room.join_rules", "")])

\* a sender without a member event reported as an error
sender_membership_check_missing_is_error(sender_member_event) ==
    IF is_none(sender_member_event) THEN ErrDeserialization
    ELSE LET membership == unwrap(sender_member_event).content.membership IN
         IF ~from_value_ok(membership) THEN ErrDeserialization
         ELSE IF membership # "join" THEN OkFalse
         ELSE Continue

\* every membership but Leave and Ban let through
sender_membership_check_not_left(sender_member_event) ==
    IF is_none(sender_member_event) THEN OkFalse
    ELSE LET membership == unwrap(sender_member_event).content.membership IN
         IF ~from_value_ok(membership) THEN ErrDeserialization
         ELSE IF membership \in {"leave", "ban"} THEN OkFalse
         ELSE Continue

\* If the sender's current membership state is not join, reject
sender_membership_check(sender_member_event) ==
    IF is_none(sender_member_event) THEN OkFalse
    ELSE LET membership == unwrap(sender_member_event).content.membership IN
         IF ~from_value_ok(membership) THEN ErrDeserialization
         ELSE IF membership # "join" THEN OkFalse
         ELSE Continue

\* the create event looked for after the member branch
auth_check_begin_create_late(a) ==
    LET incoming_event == a.incoming_event IN
    IF incoming_event.event_type = "m.room.create"
    THEN Ok(create_allowed(incoming_event))
    ELSE IF /\ incoming_event.event_type = "m.room.aliases"
            /\ a.room_version.special_case_aliases_auth
            /\ is_some(fetch_state(a.state, "m.room.create", ""))
    THEN Ok(aliases_allowed(incoming_event))
    ELSE IF incoming_event.event_type = "m.room.member" THEN member_check(a)
    ELSE IF is_none(fetch_state(a.state, "m.room.create", "")) THEN OkFalse
    ELSE sender_membership_check(
             fetch_state(a.state, "m.room.member", incoming_event.sender))

\* the aliases case taken before the create event is looked for
auth_check_begin_aliases_first(a) ==
    LET incoming_event == a.incoming_event IN
    IF incoming_event.event_type = "m.room.create"
    THEN Ok(create_allowed(incoming_event))
    ELSE IF /\ incoming_event.event_type = "m.room.aliases"
            /\ a.room_version.special_case_aliases_auth
    THEN Ok(aliases_allowed(incoming_event))
    ELSE IF is_none(fetch_state(a.state, "m.room.create", "")) THEN OkFalse
    ELSE IF incoming_event.event_type = "m.room.member" THEN member_check(a)
    ELSE sender_membership_check(
             fetch_state(a.state, "m.room.member", incoming_event.sender))

\* auth_check from its entry to the check of the sender's membership: the
\* verdict it returns, or Continue.
auth_check_begin(a) ==
    LET incoming_event == a.incoming_event IN
    IF incoming_event.event_type = "m.room.create"
    THEN Ok(create_allowed(incoming_event))
    ELSE IF is_none(fetch_state(a.state, "m.room.create", "")) THEN OkFalse
    ELSE IF /\ incoming_event.event_type = "m.room.aliases"
            /\ a.room_version.special_case_aliases_auth
    THEN Ok(aliases_allowed(incoming_event))
    ELSE IF incoming_event.event_type = "m.room.member" THEN member_check(a)
    ELSE sender_membership_check(
             fetch_state(a.state, "m.room.member", incoming_event.sender))

\* the invite level taken to be the default whatever the power levels say
invite_level_check_default(a, level) ==
    LET power_levels_event == fetch_state(a.state, "m.room.power_levels", "") IN
    IF a.incoming_event.event_type # "m.room.third_party_invite" THEN Continue
    ELSE IF is_some(power_levels_event) /\ ~unwrap(power_levels_event).content.ok
    THEN ErrDeserialization
    ELSE IF level < DefaultPowerLevel THEN OkFalse ELSE Continue

\* Allow if and only if sender's current power level is greater than or
\* equal to the invite level (m.room.third_party_invite events only).
invite_level_check(a, level) ==
    LET power_levels_event == fetch_state(a.state, "m.room.power_levels", "") IN
    IF a.incoming_event.event_type # "m.room.third_party_invite" THEN Continue
    ELSE IF is_some(power_levels_event) /\ ~unwrap(power_levels_event).content.ok
    THEN ErrDeserialization
    ELSE LET invite_level ==
                 IF is_some(power_levels_event)
                 THEN PowerLevelsFromValue(unwrap(power_levels_event).content).invite
                 ELSE DefaultPowerLevel IN
         IF level < invite_level THEN OkFalse ELSE Continue

\* the state default, whether or not the event has a state key
get_send_level_state_default(e_type, state_key, power_lvl) ==
    IF is_some(power_lvl) /\ unwrap(power_lvl).content.ok
    THEN LET content == PowerLevelsFromValue(unwrap(power_lvl).content) IN
         IF e_type \in DOMAIN content.events THEN content.events[e_type]
         ELSE content.state_default
    ELSE DefaultPowerLevel

\* The level needed to send an event of type e_type.
get_send_level(e_type, state_key, power_lvl) ==
    IF is_some(power_lvl) /\ unwrap(power_lvl).content.ok
    THEN LET content == PowerLevelsFromValue(unwrap(power_lvl).content) IN
         IF e_type \in DOMAIN content.events THEN content.events[e_type]
         ELSE IF is_some(state_key) THEN content.state_default
         ELSE content.events_default
    ELSE IF is_some(state_key) THEN DefaultPowerLevel ELSE DefaultZeroLevel

\* the state key not held against the sender
can_send_event_any_state_key(event, ple, user_level) ==
    user_level >= get_send_level(event.event_type, event.state_key, ple)

\* the send level not held against the sender
can_send_event_any_level(event, ple, user_level) ==
    ~(/\ is_some(event.state_key)
      /\ starts_with_at(unwrap(event.state_key))
      /\ event.state_key # Some(event.sender))

can_send_event(event, ple, user_level) ==
    IF user_level < get_send_level(event.event_type, event.state_key, ple) THEN FALSE
    ELSE IF /\ is_some(event.state_key)
            /\ starts_with_at(unwrap(event.state_key))
            /\ event.state_key # Some(event.sender)
    THEN FALSE
    ELSE TRUE

\* The m.room.power_levels check: check_power_levels must say Some(true).
power_levels_check(a, level) ==
    IF a.incoming_event.event_type # "m.room.power_levels" THEN Continue
    ELSE LET required_pwr_lvl ==
                 check_power_levels(
                     [room_version |-> a.room_version,
                      power_event |-> a.incoming_event,
                      previous_power_event |->
                          fetch_state(a.state, "m.room.power_levels", ""),
                      user_level |-> level]) IN
         CASE required_pwr_lvl = SomeTrue -> Continue
           [] required_pwr_lvl = Panic -> Panic
           [] OTHER -> OkFalse

\* The "redact" key of the raw JSON content: None when absent, Some(None)
\* when its value is not a number, Some(Some(n)) for the number n.
json_redact(content) ==
    IF content.ok
    THEN IF is_some(content.redact) THEN Some(content.redact) ELSE None
    ELSE content.redact

\* level.to_string().parse().unwrap_or(default) for a redact key, 0 for a
\* power-levels event without one, the default without power levels.
redact_level(power_levels_event) ==
    IF is_some(power_levels_event)
    THEN LET level == json_redact(unwrap(power_levels_event).content) IN
         IF is_some(level) THEN or_default(unwrap(level), DefaultPowerLevel)
         ELSE DefaultZeroLevel
    ELSE DefaultPowerLevel

check_redaction(redaction_event, user_level, redact_lvl) ==
    IF user_level >= redact_lvl THEN TRUE
    ELSE event_id_server_name(redaction_event.event_id)
           = (IF is_some(redaction_event.redacts)
              THEN event_id_server_name(unwrap(redaction_event.redacts))
              ELSE None)

\* The m.room.redaction check of the room versions with
\* extra_redaction_checks, and the final allow.
redaction_check(a, level) ==
    IF /\ a.room_version.extra_redaction_checks
       /\ a.incoming_event.event_type = "m.room.redaction"
    THEN Ok(check_redaction(a.incoming_event, level,
                            redact_level(fetch_state(a.state, "m.room.power_levels", ""))))
    ELSE OkTrue

----------------------------------------------------------------------------
(* auth_types_for_event and can_federate *)

\* if !auth_types.contains(&key) { auth_types.push(key) }
push_new(auth_types, key) ==
    IF \E i \in 1..Len(auth_types) : auth_types[i] = key THEN auth_types
    ELSE Append(auth_types, key)

\* The keys every event but m.room.create is authorized against.
base_auth_types(sender) ==
    << <<"m.room.power_levels", "">>, <<"m.room.member", sender>>,
       <<"m.room.create", "">> >>

\* the keys pushed without looking for them in the list
member_auth_types_pushed(auth_types, state_key, content) ==
    LET membership == unwrap(content.membership)
        with_rules ==
            IF membership \in {"join", "invite"}
            THEN Append(auth_types, <<"m.room.join_rules", "">>)
            ELSE auth_types
        with_target == Append(with_rules, <<"m.room.member", state_key>>) IN
    IF /\ membership = "invite"
       /\ is_some(content.third_party_invite)
       /\ unwrap(content.third_party_invite).ok
    THEN Append(with_target,
                <<"m.room.third_party_invite",
                  unwrap(content.third_party_invite).signed.token>>)
    ELSE with_target

\* Lines 43-65: the keys a member event with a state key and a membership
\* that parses adds.
member_auth_types(auth_types, state_key, content) ==
    LET membership == unwrap(content.membership)
        with_rules ==
            IF membership \in {"join", "invite"}
            THEN push_new(auth_types, <<"m.room.join_rules", "">>)
            ELSE auth_types
        with_target == push_new(with_rules, <<"m.room.member", state_key>>) IN
    IF /\ membership = "invite"
       /\ is_some(content.third_party_invite)
       /\ unwrap(content.third_party_invite).ok
    THEN push_new(with_target,
                  <<"m.room.third_party_invite",
                    unwrap(content.third_party_invite).signed.token>>)
    ELSE with_target

\* the base keys given for m.room.create as well
auth_types_for_event_create_too(kind, sender, state_key, content) ==
    IF kind # "m.room.member" THEN base_auth_types(sender)
    ELSE IF is_none(state_key) THEN base_auth_types(sender)
    ELSE IF ~(/\ is_some(content.membership)
              /\ from_value_ok(unwrap(content.membership)))
    THEN base_auth_types(sender)
    ELSE member_auth_types(base_auth_types(sender), unwrap(state_key), content)

auth_types_for_event(kind, sender, state_key, content) ==
    IF kind = "m.room.create" THEN <<>>
    ELSE IF kind # "m.room.member" THEN base_auth_types(sender)
    ELSE IF is_none(state_key) THEN base_auth_types(sender)
    ELSE IF ~(/\ is_some(content.membership)
              /\ from_value_ok(unwrap(content.membership)))
    THEN base_auth_types(sender)
    ELSE member_auth_types(base_auth_types(sender), unwrap(state_key), content)

\* A JSON value: a boolean or a string.
json_bool(b) == [bool |-> b]
json_string(s) == [string |-> s]

\* serde_json's Value == &str: true for a JSON string of the same text only.
json_eq_str(value, text) == value = json_string(text)

\* auth_events: the state map, a function on (event type, state key) pairs.
can_federate(auth_events) ==
    LET creation_event == get(auth_events, <<"m.room.create", "">>) IN
    IF is_some(creation_event)
    THEN LET fed == unwrap(creation_event).content.federate IN
         IF is_some(fed) THEN json_eq_str(unwrap(fed), "true") ELSE FALSE
    ELSE FALSE

----------------------------------------------------------------------------
(* The arguments of valid_membership_change *)

member_event(m) == [content |-> [membership |-> m]]
MemberEvents == {None} \cup {Some(member_event(m)) : m \in MembershipStates \cup {Malformed}}

\* Levels a power-levels content gives a user, and the thresholds it sets
\* (None: the key is absent and the default applies).
UserLevels == {50, 100}
UsersDefaults == {None, Some(50)}
Thresholds == {None, Some(100)}

UsersMaps == UNION {[S -> UserLevels] : S \in SUBSET Users}

power_levels_content(users, users_default, ban, kick, invite) ==
    [ok |-> TRUE, users |-> users, events |-> <<>>,
     users_default |-> users_default, events_default |-> None,
     state_default |-> None, ban |-> ban, redact |-> None, kick |-> kick,
     invite |-> invite, notifications_room |-> None]

pl_event(c) == Some([content |-> c])

\* A room without power levels, one whose power-levels content does not
\* deserialize, and one that names no user and sets no threshold.
FewPowerLevels ==
    {None, pl_event([ok |-> FALSE]),
     pl_event(power_levels_content(<<>>, None, None, None, None))}

AllPowerLevels ==
    {None, pl_event([ok |-> FALSE])} \cup
    {pl_event(power_levels_content(u, d, b, k, i)) :
        u \in UsersMaps, d \in UsersDefaults,
        b \in Thresholds, k \in Thresholds, i \in Thresholds}

jr_event(j) == Some([content |-> [join_rule |-> j]])
AllJoinRulesEvents == {None} \cup {jr_event(j) : j \in JoinRules \cup {Malformed}}
JoinRulesFor(membership) ==
    IF membership = "join" THEN AllJoinRulesEvents
    ELSE {None, jr_event(Malformed)}

Tokens == {"T", "U"}

\* content.third_party_invite: absent, not deserializable, or signed for a
\* user with a token.
ThirdPartyInvites ==
    {None, Some([ok |-> FALSE])} \cup
    {Some([ok |-> TRUE, signed |-> [mxid |-> u, token |-> t]]) :
        u \in Users, t \in Tokens}

\* The longest public_keys list of a third-party-invite event.
MaxKeys == 2
KeyLists == UNION {[1..n -> Tokens] : n \in 0..MaxKeys}

ThirdPartyInviteContents ==
    {[ok |-> FALSE]} \cup
    {[ok |-> TRUE, public_keys |-> ks, public_key |-> k] :
        ks \in {None} \cup {Some(l) : l \in KeyLists}, k \in Tokens}

ThirdPartyInviteEvents ==
    {None} \cup
    {Some([state_key |-> Some(t), sender |-> s, content |-> c]) :
        t \in Tokens, s \in Users, c \in ThirdPartyInviteContents}

\* prev_events is the number of the event's prev_events, at most
\* MaxPrevEvents.
MaxPrevEvents == 1
PrevEvents ==
    {None} \cup
    {Some([event_type |-> t, prev_events |-> n]) :
        t \in {"m.room.create", "m.room.member"}, n \in 0..MaxPrevEvents}

has_third_party_invite(content) ==
    is_some(content.third_party_invite) /\ unwrap(content.third_party_invite).ok

\* What the rule for `membership` reads varies over all its values; what it
\* does not read is absent, malformed or plain.
ThirdPartyInvitesFor(membership) ==
    IF membership = "invite" THEN ThirdPartyInvites ELSE {None}

CurrentThirdPartyInvitesFor(content) ==
    IF has_third_party_invite(content) THEN ThirdPartyInviteEvents ELSE {None}

PowerLevelsEventsFor(content) ==
    IF has_third_party_invite(content) THEN FewPowerLevels
    ELSE IF content.membership \in {"join", "knock"} THEN FewPowerLevels
    ELSE AllPowerLevels

----------------------------------------------------------------------------
(* Specification: one call of valid_membership_change *)

\* The sender's and the target's member events are two lookups in one state:
\* they are the same event when the sender is the target.
Init ==
    /\ \E target_user \in Users, sender \in Users, membership \in MembershipStates,
          prev_event \in PrevEvents, target_event \in MemberEvents :
       \E sender_event \in IF sender = target_user THEN {target_event} ELSE MemberEvents,
          third_party_invite \in ThirdPartyInvitesFor(membership),
          join_rules_event \in JoinRulesFor(membership) :
       LET content == [membership |-> membership,
                       third_party_invite |-> third_party_invite] IN
       \E power_levels_event \in PowerLevelsEventsFor(content),
          current \in CurrentThirdPartyInvitesFor(content) :
          args = [target_user |-> target_user,
                  target_user_membership_event |-> target_event,
                  sender |-> sender,
                  sender_membership_event |-> sender_event,
                  content |-> content,
                  prev_event |-> prev_event,
                  current_third_party_invite |-> current,
                  power_levels_event |-> power_levels_event,
                  join_rules_event |-> join_rules_event]
    /\ locals = <<>>
    /\ ret = NotReturned
    /\ pc = "call"

ValidMembershipChange ==
    /\ pc = "call"
    /\ ret' = valid_membership_change(args)
    /\ pc' = "done"
    /\ UNCHANGED <<args, locals>>

Next == ValidMembershipChange

Spec == Init /\ [][Next]_vars

----------------------------------------------------------------------------
(* Specification: one call of check_power_levels, as auth_check makes it *)

\* The most keys (users entries, events entries, thresholds) a power-levels
\* content carries.
MaxEntries == 2

EventLevels == {50, 100}
ScalarNames == LevelNames \cup {"notifications_room"}

\* A content with the users entries `users`, the events entries `events`
\* and the keys `scalars` raised to 100.
Raised == Some(100)
edit_content(users, events, scalars) ==
    [ok |-> TRUE, users |-> users, events |-> events,
     users_default |-> IF "users_default" \in scalars THEN Raised ELSE None,
     events_default |-> IF "events_default" \in scalars THEN Raised ELSE None,
     state_default |-> IF "state_default" \in scalars THEN Raised ELSE None,
     ban |-> IF "ban" \in scalars THEN Raised ELSE None,
     redact |-> IF "redact" \in scalars THEN Raised ELSE None,
     kick |-> IF "kick" \in scalars THEN Raised ELSE None,
     invite |-> IF "invite" \in scalars THEN Raised ELSE None,
     notifications_room |->
         IF "notifications_room" \in scalars THEN Raised ELSE None]

EventsMaps == UNION {[S -> EventLevels] : S \in SUBSET {"m.room.name"}}

PowerLevelsContents ==
    {[ok |-> FALSE]} \cup
    UNION {UNION {{edit_content(u, e, s) :
                     s \in {x \in SUBSET ScalarNames :
                              Cardinality(DOMAIN u) + Cardinality(DOMAIN e)
                                + Cardinality(x) <= MaxEntries}} :
                  e \in EventsMaps} :
           u \in UsersMaps}

StateKeys == {None, Some(""), Some("@bob:b")}

\* The room's create event, naming its creator.
create_event(creator) == Some([content |-> [ok |-> TRUE, creator |-> creator]])

\* The creator named by the create event is read only in a room without
\* power levels.
CreatorsFor(previous) == IF previous = None THEN Users ELSE {"@alice:a"}

InitPower ==
    /\ \E content \in PowerLevelsContents, sender \in Users, state_key \in StateKeys,
          limit \in BOOLEAN,
          previous \in {None} \cup {pl_event(c) : c \in PowerLevelsContents} :
       \E creator \in CreatorsFor(previous) :
          args = [room_version |-> [limit_notifications_power_levels |-> limit],
                  power_event |-> [state_key |-> state_key, sender |-> sender,
                                   content |-> content],
                  previous_power_event |-> previous,
                  creator |-> creator,
                  user_level |-> sender_power_level(previous, create_event(creator),
                                                    sender)]
    /\ locals = <<>>
    /\ ret = NotReturned
    /\ pc = "call"

CheckPowerLevels ==
    /\ pc = "call"
    /\ ret' = check_power_levels(args)
    /\ pc' = "done"
    /\ UNCHANGED <<args, locals>>

NextPower == CheckPowerLevels

SpecPower == InitPower /\ [][NextPower]_vars

----------------------------------------------------------------------------
(* Specification: one call of auth_check *)

RoomIds == {"!room:a", "!room:b"}
EventIds == {"$event:a", "$event:b", "$hash"}

\* An incoming event that is not the room's first: it has a prev_event.
incoming(event_type, sender, state_key, content) ==
    [event_type |-> event_type, sender |-> sender, state_key |-> state_key,
     content |-> content, prev_events |-> 1, room_id |-> "!room:a",
     event_id |-> "$hash", redacts |-> None]

room_version(aliases, redaction, notifications) ==
    [special_case_aliases_auth |-> aliases, extra_redaction_checks |-> redaction,
     limit_notifications_power_levels |-> notifications]

\* The state snapshot behind fetch_state.
room_state(create, power_levels, members, rules) ==
    [create |-> create, power_levels |-> power_levels, members |-> members,
     join_rules |-> rules]

\* Only the sender has a member event.
sender_only(sender, sender_event) ==
    [u \in Users |-> IF u = sender THEN sender_event ELSE None]

auth_args(version, incoming_event, prev_event, state) ==
    [room_version |-> version, incoming_event |-> incoming_event,
     prev_event |-> prev_event, current_third_party_invite |-> None,
     state |-> state]

\* No create event, one whose content does not deserialize, one per creator.
CreateEvents ==
    {None, Some([content |-> [ok |-> FALSE]])} \cup {create_event(u) : u \in Users}
FewCreateEvents == {None, create_event("@alice:a")}

FewMemberEvents ==
    {None, Some(member_event("join")), Some(member_event("ban")),
     Some(member_event(Malformed))}

\* A power-levels content that deserializes, as far as sending goes.
send_levels_content(users, users_default, events, events_default, state_default, invite, redact) ==
    [ok |-> TRUE, users |-> users, events |-> events,
     users_default |-> users_default, events_default |-> events_default,
     state_default |-> state_default, ban |-> None, redact |-> redact,
     kick |-> None, invite |-> invite, notifications_room |-> None]

\* No entry for the event type, or one at either level.
EventsMapsFor(event_type) ==
    {<<>>} \cup {[t \in {event_type} |-> l] : l \in EventLevels}

\* m.room.create events
InitCreate ==
    \E sender \in Users, room_id \in RoomIds, prev_events \in 0..MaxPrevEvents,
       version \in {None, Some("1"), Some("6"), Some("99"), Some(Malformed)},
       creator \in {None, Some("@alice:a")}, create \in FewCreateEvents :
       args = auth_args(
                  room_version(FALSE, FALSE, FALSE),
                  [incoming("m.room.create", sender, Some(""),
                         [room_version |-> version, creator |-> creator])
                       EXCEPT !.room_id = room_id, !.prev_events = prev_events],
                  None,
                  room_state(create, None, sender_only(sender, None), None))

\* m.room.aliases events
InitAliases ==
    \E sender \in Users, special \in BOOLEAN,
       state_key \in {None, Some(""), Some("a"), Some("b"), Some("@alice:a"),
                      Some("@bob:b")},
       create \in CreateEvents, sender_event \in MemberEvents,
       power_levels \in FewPowerLevels :
       args = auth_args(
                  room_version(special, FALSE, FALSE),
                  incoming("m.room.aliases", sender, state_key, <<>>),
                  None,
                  room_state(create, power_levels, sender_only(sender, sender_event),
                             None))

\* m.room.member events; the membership rules themselves are exercised by
\* the specification of valid_membership_change.
InitMember ==
    \E sender \in Users,
       state_key \in {None, Some("")} \cup {Some(u) : u \in Users},
       membership \in {None, Some(Malformed)} \cup {Some(m) : m \in MembershipStates},
       prev_event \in {None, Some([event_type |-> "m.room.create", prev_events |-> 0])},
       sender_event \in FewMemberEvents, target_event \in FewMemberEvents,
       power_levels \in FewPowerLevels, rules \in {None, jr_event("public")},
       create \in FewCreateEvents :
       args = auth_args(
                  room_version(FALSE, FALSE, FALSE),
                  incoming("m.room.member", sender, state_key,
                        [membership |-> membership, third_party_invite |-> None]),
                  prev_event,
                  room_state(create, power_levels,
                             [u \in Users |->
                                 IF u = sender THEN sender_event
                                 ELSE IF Some(u) = state_key THEN target_event
                                 ELSE None],
                             rules))

\* m.room.member invites that carry a third-party invite, with the
\* third-party-invite event the caller passes.
InitInvite ==
    \E sender \in Users, target \in Users,
       third_party_invite \in ThirdPartyInvites \ {None},
       current \in ThirdPartyInviteEvents,
       sender_event \in FewMemberEvents,
       target_event \in {None, Some(member_event("ban"))} :
       args = [auth_args(
                   room_version(FALSE, FALSE, FALSE),
                   incoming("m.room.member", sender, Some(target),
                            [membership |-> Some("invite"),
                             third_party_invite |-> third_party_invite]),
                   None,
                   room_state(create_event("@alice:a"), None,
                              [u \in Users |->
                                  IF u = sender THEN sender_event
                                  ELSE IF u = target THEN target_event
                                  ELSE None],
                              None))
               EXCEPT !.current_third_party_invite = current]

\* Events held to nothing but the sender's membership and the send level: a
\* state event and a message event.
InitSend ==
    \E sender \in Users,
       kind \in {<<"m.room.name", Some("")>>, <<"m.room.name", Some("@alice:a")>>,
                 <<"m.room.name", Some("@bob:b")>>, <<"m.room.message", None>>},
       create \in CreateEvents, sender_event \in MemberEvents :
    \E power_levels \in
           {None, pl_event([ok |-> FALSE])} \cup
           {pl_event(send_levels_content(u, d, e, ed, sd, None, None)) :
               u \in UsersMaps, d \in UsersDefaults, e \in EventsMapsFor(kind[1]),
               ed \in Thresholds, sd \in Thresholds} :
       args = auth_args(
                  room_version(FALSE, FALSE, FALSE),
                  incoming(kind[1], sender, kind[2], <<>>),
                  None,
                  room_state(create, power_levels, sender_only(sender, sender_event),
                             None))

\* m.room.third_party_invite events
InitThirdPartyInvite ==
    \E sender \in Users, state_key \in {None, Some("T")},
       create \in FewCreateEvents, sender_event \in FewMemberEvents,
       power_levels \in
           {None, pl_event([ok |-> FALSE])} \cup
           {pl_event(send_levels_content(u, d, e, None, sd, i, None)) :
               u \in UsersMaps, d \in UsersDefaults,
               e \in EventsMapsFor("m.room.third_party_invite"),
               sd \in Thresholds, i \in Thresholds} :
       args = auth_args(
                  room_version(FALSE, FALSE, FALSE),
                  incoming("m.room.third_party_invite", sender, state_key, <<>>),
                  None,
                  room_state(create, power_levels, sender_only(sender, sender_event),
                             None))

\* m.room.power_levels events; the edit rules themselves are exercised by
\* the specification of check_power_levels.
InitPowerLevels ==
    \E sender \in Users, state_key \in StateKeys, limit \in BOOLEAN,
       create \in CreateEvents, sender_event \in FewMemberEvents,
       content \in {[ok |-> FALSE]} \cup
                   {edit_content(u, <<>>, s) :
                       u \in {<<>>, [x \in {"@alice:a"} |-> 100]},
                       s \in {{}, {"ban"}}},
       power_levels \in
           {None, pl_event([ok |-> FALSE])} \cup
           {pl_event(edit_content(u, e, {})) :
               u \in UsersMaps, e \in EventsMapsFor("m.room.power_levels")} :
       args = auth_args(
                  room_version(FALSE, FALSE, limit),
                  incoming("m.room.power_levels", sender, state_key, content),
                  None,
                  room_state(create, power_levels, sender_only(sender, sender_event),
                             None))

\* m.room.redaction events.  A power-levels content that does not
\* deserialize still has its redact key read: absent, not a number, or 100.
InitRedaction ==
    \E sender \in Users, extra \in BOOLEAN, event_id \in EventIds,
       redacts \in {None} \cup {Some(id) : id \in EventIds},
       create \in FewCreateEvents, sender_event \in FewMemberEvents :
    \E power_levels \in
           {None} \cup
           {pl_event([ok |-> FALSE, redact |-> r]) :
               r \in {None, Some(None), Some(Raised)}} \cup
           {pl_event(send_levels_content(u, d, e, None, None, None, r)) :
               u \in {<<>>} \cup {[x \in {sender} |-> l] : l \in UserLevels},
               d \in UsersDefaults, e \in EventsMapsFor("m.room.redaction"),
               r \in Thresholds} :
       args = auth_args(
                  room_version(FALSE, extra, FALSE),
                  [incoming("m.room.redaction", sender, None, <<>>)
                       EXCEPT !.event_id = event_id, !.redacts = redacts],
                  None,
                  room_state(create, power_levels, sender_only(sender, sender_event),
                             None))

InitAuth ==
    /\ \/ InitCreate
       \/ InitAliases
       \/ InitMember
       \/ InitInvite
       \/ InitSend
       \/ InitThirdPartyInvite
       \/ InitPowerLevels
       \/ InitRedaction
    /\ locals = <<>>
    /\ ret = NotReturned
    /\ pc = "call"

\* What auth_check reads of the state after its entry checks.
power_levels_event_of(a) == fetch_state(a.state, "m.room.power_levels", "")

\* A check of auth_check returns `result`, or hands on to the check at `next`.
Return(result, next) ==
    IF result = Continue
    THEN pc' = next /\ UNCHANGED ret
    ELSE pc' = "done" /\ ret' = result

\* prev_event taken out of the caller's hands
AuthCheckTakingPrevEvent ==
    /\ pc = "call"
    /\ Return(auth_check_begin(args), "sender_power_level")
    /\ args' = [args EXCEPT !.prev_event = None]
    /\ UNCHANGED locals

\* Lines 112-269: the create, aliases and member cases and the sender's
\* membership.
AuthCheck ==
    /\ pc = "call"
    /\ Return(auth_check_begin(args), "sender_power_level")
    /\ UNCHANGED <<args, locals>>

\* the level of the earlier call kept for the later one
SenderPowerLevelKept ==
    /\ pc = "sender_power_level"
    /\ locals' = [sender_power_level |->
                     IF "first" \in DOMAIN locals /\ locals.first = OkTrue
                     THEN DefaultZeroLevel
                     ELSE sender_power_level(power_levels_event_of(args),
                                             fetch_state(args.state, "m.room.create", ""),
                                             args.incoming_event.sender)]
                  @@ locals
    /\ pc' = "third_party_invite"
    /\ UNCHANGED <<args, ret>>

\* Lines 271-287. What the caller holds besides (the result of an earlier
\* call) stays as it is.
SenderPowerLevel ==
    /\ pc = "sender_power_level"
    /\ locals' = [sender_power_level |->
                     sender_power_level(power_levels_event_of(args),
                                        fetch_state(args.state, "m.room.create", ""),
                                        args.incoming_event.sender)]
                  @@ locals
    /\ pc' = "third_party_invite"
    /\ UNCHANGED <<args, ret>>

\* Lines 289-303
InviteLevel ==
    /\ pc = "third_party_invite"
    /\ Return(invite_level_check(args, locals.sender_power_level), "can_send_event")
    /\ UNCHANGED <<args, locals>>

\* Lines 305-310
CanSendEvent ==
    /\ pc = "can_send_event"
    /\ Return(IF can_send_event(args.incoming_event, power_levels_event_of(args),
                                locals.sender_power_level)
              THEN Continue ELSE OkFalse,
              "check_power_levels")
    /\ UNCHANGED <<args, locals>>

\* Lines 312-330
PowerLevels ==
    /\ pc = "check_power_levels"
    /\ Return(power_levels_check(args, locals.sender_power_level), "check_redaction")
    /\ UNCHANGED <<args, locals>>

\* Lines 339-360
Redaction ==
    /\ pc = "check_redaction"
    /\ Return(redaction_check(args, locals.sender_power_level), "done")
    /\ UNCHANGED <<args, locals>>

NextAuth ==
    \/ AuthCheck
    \/ SenderPowerLevel
    \/ InviteLevel
    \/ CanSendEvent
    \/ PowerLevels
    \/ Redaction

SpecAuth == InitAuth /\ [][NextAuth]_vars

----------------------------------------------------------------------------
(* Specification: auth_check called twice with the same arguments *)

\* The caller keeps the first result and calls again: the arguments are
\* the same references, the locals of the first call are gone.
CallAgain ==
    /\ pc = "done"
    /\ "first" \notin DOMAIN locals
    /\ locals' = [first |-> ret]
    /\ ret' = NotReturned
    /\ pc' = "call"
    /\ UNCHANGED args

NextTwice ==
    \/ NextAuth
    \/ CallAgain

SpecTwice == InitAuth /\ [][NextTwice]_vars

----------------------------------------------------------------------------
(* Specification: auth_check called on two snapshots that agree on the
   keys of auth_types_for_event *)

\* The keys auth_types_for_event lists for the incoming event.
auth_keys(incoming_event) ==
    LET auth_types == auth_types_for_event(incoming_event.event_type,
                                           incoming_event.sender,
                                           incoming_event.state_key,
                                           incoming_event.content) IN
    {auth_types[i] : i \in 1..Len(auth_types)}

\* Snapshots that differ from `state` in any of its entries.
OtherSnapshots(state) ==
    {room_state(create, power_levels, members, rules) :
        create \in {state.create, None},
        power_levels \in {state.power_levels, None},
        members \in [Users -> {None, Some(member_event("join"))}
                              \cup {state.members[u] : u \in Users}],
        rules \in {state.join_rules, None, jr_event(Malformed)}}

\* The caller keeps the first result and calls again with a snapshot that
\* has the same events under the keys of auth_types_for_event.
CallOnOtherSnapshot ==
    /\ pc = "done"
    /\ "on_first_snapshot" \notin DOMAIN locals
    /\ \E state \in OtherSnapshots(args.state) :
          /\ \A key \in auth_keys(args.incoming_event) :
                fetch_state(state, key[1], key[2])
                    = fetch_state(args.state, key[1], key[2])
          /\ args' = [args EXCEPT !.state = state]
    /\ locals' = [on_first_snapshot |-> ret]
    /\ ret' = NotReturned
    /\ pc' = "call"

NextSnapshots ==
    \/ NextAuth
    \/ CallOnOtherSnapshot

SpecSnapshots == InitAuth /\ [][NextSnapshots]_vars

----------------------------------------------------------------------------
(* Specification: a room whose state takes up the events auth_check allows *)

\* The power-levels contents of the room and of the edits sent to it.
RoomLevels ==
    {power_levels_content(u, d, b, None, None) :
        u \in UsersMaps, d \in UsersDefaults, b \in Thresholds}

\* A member event, or none, for every user.
RoomMembers ==
    [Users -> {None} \cup
              {Some(member_event(m)) : m \in {"join", "invite", "leave", "ban"}}]

\* The events sent to the room: member events for every target and
\* membership, and power-levels events.
RoomEvents ==
    {incoming("m.room.member", s, Some(t),
              [membership |-> Some(m), third_party_invite |-> None]) :
        s \in Users, t \in Users, m \in MembershipStates}
    \cup {incoming("m.room.power_levels", s, Some(""), c) :
            s \in Users, c \in RoomLevels}

\* No event has the create event as its prev_event.
room_args(incoming_event, state) ==
    auth_args(room_version(FALSE, FALSE, TRUE), incoming_event, None, state)

InitRoom ==
    /\ \E members \in RoomMembers, levels \in RoomLevels,
          rules \in {None, jr_event("public")}, incoming_event \in RoomEvents :
          args = room_args(incoming_event,
                           room_state(create_event("@alice:a"), pl_event(levels),
                                      members, rules))
    /\ locals = <<>>
    /\ ret = NotReturned
    /\ pc = "call"

\* The state with the event in the place of the entry under its type and
\* state key.
apply_event(state, event) ==
    IF event.event_type = "m.room.member"
    THEN [state EXCEPT !.members[unwrap(event.state_key)] =
              Some(member_event(unwrap(event.content.membership)))]
    ELSE [state EXCEPT !.power_levels = pl_event(event.content)]

\* An allowed event becomes part of the state, any other is dropped; the
\* next event arrives.
ApplyEvent ==
    /\ pc = "done"
    /\ \E incoming_event \in RoomEvents :
          args' = room_args(incoming_event,
                            IF ret = OkTrue
                            THEN apply_event(args.state, args.incoming_event)
                            ELSE args.state)
    /\ locals' = <<>>
    /\ ret' = NotReturned
    /\ pc' = "call"

NextRoom ==
    \/ NextAuth
    \/ ApplyEvent

SpecRoom == InitRoom /\ [][NextRoom]_vars

----------------------------------------------------------------------------
(* Specification: one call of one of the helper functions *)

AuthKinds == {"m.room.create", "m.room.member", "m.room.name", "m.room.power_levels"}

\* The state key of the event: none, the empty one, or a user's id.
AuthStateKeys == {None, Some("")} \cup {Some(u) : u \in Users}

\* content.membership: absent, not a membership, or a membership.
MembershipValues ==
    {None, Some(Malformed)} \cup {Some(m) : m \in MembershipStates}

InitAuthTypes ==
    \E kind \in AuthKinds, sender \in Users, state_key \in AuthStateKeys :
    \E membership \in IF kind = "m.room.member" THEN MembershipValues ELSE {None},
       third_party_invite \in
           IF kind = "m.room.member" THEN ThirdPartyInvites ELSE {None} :
       args = [function |-> "auth_types_for_event",
               kind |-> kind, sender |-> sender, state_key |-> state_key,
               content |-> [membership |-> membership,
                            third_party_invite |-> third_party_invite]]

\* The current third-party-invite event may lack a state key.
CurrentThirdPartyInvites ==
    ThirdPartyInviteEvents \cup
    {Some([state_key |-> None, sender |-> s, content |-> c]) :
        s \in Users, c \in ThirdPartyInviteContents}

InitVerify ==
    \E target_user \in {None} \cup {Some(u) : u \in Users}, sender \in Users,
       mxid \in Users, token \in Tokens, current \in CurrentThirdPartyInvites :
       args = [function |-> "verify_third_party_invite",
               target_user |-> target_user, sender |-> sender,
               tp_id |-> [mxid |-> mxid, token |-> token],
               current_third_party_invite |-> current]

SendLevels == {None, Some(50), Some(100)}

InitSendLevel ==
    \E e_type \in {"m.room.name", "m.room.topic"},
       state_key \in {None, Some("")},
       events \in EventsMapsFor("m.room.name"),
       events_default \in SendLevels, state_default \in SendLevels,
       parses \in {"absent", "malformed", "parsed"} :
       args = [function |-> "get_send_level",
               e_type |-> e_type, state_key |-> state_key,
               power_lvl |->
                   IF parses = "absent" THEN None
                   ELSE IF parses = "malformed" THEN pl_event([ok |-> FALSE])
                   ELSE pl_event(send_levels_content(<<>>, None, events,
                                     events_default, state_default, None, None))]

\* content["m.federate"]: absent, a JSON boolean or a JSON string.
FederateValues ==
    {None, Some(json_bool(TRUE)), Some(json_bool(FALSE)),
     Some(json_string("true")), Some(json_string("false"))}

AuthEventKeys ==
    {<<"m.room.create", "">>, <<"m.room.create", "@alice:a">>,
     <<"m.room.member", "@alice:a">>}

InitFederate ==
    \E keys \in SUBSET AuthEventKeys :
    \E auth_events \in [keys -> {[content |-> [federate |-> f]] : f \in FederateValues}] :
       args = [function |-> "can_federate", auth_events |-> auth_events]

InitHelpers ==
    /\ \/ InitAuthTypes
       \/ InitVerify
       \/ InitSendLevel
       \/ InitFederate
    /\ locals = <<>>
    /\ ret = NotReturned
    /\ pc = "call"

AuthTypesForEvent ==
    /\ pc = "call"
    /\ args.function = "auth_types_for_event"
    /\ ret' = auth_types_for_event(args.kind, args.sender, args.state_key, args.content)
    /\ pc' = "done"
    /\ UNCHANGED <<args, locals>>

VerifyThirdPartyInvite ==
    /\ pc = "call"
    /\ args.function = "verify_third_party_invite"
    /\ ret' = verify_third_party_invite(args.target_user, args.sender, args.tp_id,
                                        args.current_third_party_invite)
    /\ pc' = "done"
    /\ UNCHANGED <<args, locals>>

GetSendLevel ==
    /\ pc = "call"
    /\ args.function = "get_send_level"
    /\ ret' = get_send_level(args.e_type, args.state_key, args.power_lvl)
    /\ pc' = "done"
    /\ UNCHANGED <<args, locals>>

CanFederate ==
    /\ pc = "call"
    /\ args.function = "can_federate"
    /\ ret' = can_federate(args.auth_events)
    /\ pc' = "done"
    /\ UNCHANGED <<args, locals>>

NextHelpers ==
    \/ AuthTypesForEvent
    \/ VerifyThirdPartyInvite
    \/ GetSendLevel
    \/ CanFederate

SpecHelpers == InitHelpers /\ [][NextHelpers]_vars

----------------------------------------------------------------------------
(* The membership rules, as the specification of the validator states them *)

Returned == pc = "done"

\* What a state event says about a user's membership: Leave when the state
\* has no member event for the user.
MembershipIn(event) ==
    IF event = None THEN "leave" ELSE event[1].content.membership

TargetCurrent == MembershipIn(args.target_user_membership_event)
SenderJoined == MembershipIn(args.sender_membership_event) = "join"

\* An absent join-rules event counts as Invite.
JoinRule ==
    IF args.join_rules_event = None THEN "invite"
    ELSE args.join_rules_event[1].content.join_rule

\* Every content of the state that the validator reads deserializes: the
\* memberships and the join rule are known values and the power levels are a
\* power-levels record.  The facts the rules are stated in (the current
\* memberships, the join rule, the powers) exist only then.
StateWellFormed ==
    /\ TargetCurrent \in MembershipStates
    /\ MembershipIn(args.sender_membership_event) \in MembershipStates
    /\ JoinRule \in JoinRules
    /\ args.power_levels_event # None => args.power_levels_event[1].content.ok

Levels ==
    IF args.power_levels_event = None THEN PowerLevelsDefault
    ELSE PowerLevelsFromValue(args.power_levels_event[1].content)

\* The power of a user as a set: empty when undefined, else the one level.
SenderPowerSet ==
    IF args.sender \in DOMAIN Levels.users THEN {Levels.users[args.sender]}
    ELSE IF SenderJoined THEN {Levels.users_default}
    ELSE {}

TargetPowerSet ==
    IF args.target_user \in DOMAIN Levels.users THEN {Levels.users[args.target_user]}
    ELSE IF args.content.membership = "join" THEN {Levels.users_default}
    ELSE {}

SenderPowerAtLeast(level) == \E p \in SenderPowerSet : p >= level

\* target_power < sender_power, an undefined power being below every level.
TargetBelowSender ==
    \E p \in SenderPowerSet : \A q \in TargetPowerSet : q < p

Bootstrap ==
    /\ args.prev_event # None
    /\ args.prev_event[1].event_type = "m.room.create"
    /\ args.prev_event[1].prev_events = 0

\* A call for the target membership `m`.
Called(m) == Returned /\ args.content.membership = m

\* The call returns Ok(true) exactly when the state is well formed and
\* `allowed` holds of it, and a boolean whenever the state is well formed.
ReturnsTrueIff(allowed) ==
    /\ ret = OkTrue <=> (StateWellFormed /\ allowed)
    /\ StateWellFormed => ret \in {OkTrue, OkFalse}

ThirdPartyInviteGiven ==
    /\ args.content.third_party_invite # None
    /\ args.content.third_party_invite[1].ok

JoinAllowed ==
    /\ args.sender = args.target_user
    /\ TargetCurrent # "ban"
    /\ \/ JoinRule = "public"
       \/ JoinRule = "invite" /\ TargetCurrent \in {"join", "invite"}

\* C1: a Join that is not the bootstrap join is allowed exactly when the
\* sender is the target, the target is not banned, and the room is public or
\* it is invite-only and the target is joined or invited; no join-rules event
\* means invite-only and no member event means Leave, so a user without a
\* member event is denied the join to an invite-only room.
C1_JoinRule ==
    (Called("join") /\ ~Bootstrap) =>
        /\ ReturnsTrueIff(JoinAllowed)
        /\ (StateWellFormed /\ JoinRule = "invite"
              /\ args.target_user_membership_event = None) => ret = OkFalse

\* An invited user joins a room that has no join-rules event.
C1_Witness ==
    /\ Called("join") /\ ~Bootstrap
    /\ args.join_rules_event = None
    /\ TargetCurrent = "invite"
    /\ ret = OkTrue

BanAllowed ==
    /\ SenderJoined
    /\ SenderPowerAtLeast(Levels.ban)
    /\ TargetBelowSender

\* C2: a Ban that is not the bootstrap case is allowed exactly when the
\* sender is joined, has at least the ban level, and the target's power is
\* strictly below the sender's, a target without a users entry being below
\* every level.
C2_BanRule ==
    (Called("ban") /\ ~Bootstrap) => ReturnsTrueIff(BanAllowed)

\* A joined sender with level 100 bans a user who has no level.
C2_Witness ==
    /\ Called("ban") /\ ~Bootstrap
    /\ StateWellFormed
    /\ SenderPowerSet = {100}
    /\ args.target_user \notin DOMAIN Levels.users
    /\ ret = OkTrue

KickAllowed ==
    /\ SenderJoined
    /\ (TargetCurrent # "ban" \/ SenderPowerAtLeast(Levels.ban))
    /\ SenderPowerAtLeast(Levels.kick)
    /\ TargetBelowSender

\* C3: a kick or unban (the Leave of another user, not the bootstrap case)
\* is allowed exactly when the sender is joined, the target is not banned or
\* the sender has the ban level, the sender has the kick level, and the
\* target's power is strictly below the sender's.
C3_KickRule ==
    (Called("leave") /\ ~Bootstrap /\ args.sender # args.target_user) =>
        ReturnsTrueIff(KickAllowed)

\* A sender with the kick level but not the ban level is denied an unban.
C3_Witness ==
    /\ Called("leave") /\ ~Bootstrap
    /\ args.sender # args.target_user
    /\ StateWellFormed
    /\ SenderJoined
    /\ TargetCurrent = "ban"
    /\ SenderPowerAtLeast(Levels.kick)
    /\ ~SenderPowerAtLeast(Levels.ban)
    /\ TargetBelowSender
    /\ ret = OkFalse

InviteAllowed ==
    /\ SenderJoined
    /\ TargetCurrent \notin {"join", "ban"}
    /\ SenderPowerAtLeast(Levels.invite)

\* C4 as stated: an Invite without a parseable third_party_invite is
\* allowed exactly when the sender is joined, the target is neither joined
\* nor banned, and the sender has the invite level.
C4_InviteRuleEveryPrevEvent ==
    (Called("invite") /\ ~ThirdPartyInviteGiven) => ReturnsTrueIff(InviteAllowed)

\* C4 as amended: the same, for an Invite whose prev_event is not the
\* bootstrap create event.
C4_InviteRule ==
    (Called("invite") /\ ~ThirdPartyInviteGiven /\ ~Bootstrap) =>
        ReturnsTrueIff(InviteAllowed)

\* An invite whose third_party_invite does not deserialize is allowed on the
\* sender's power.
C4_Witness ==
    /\ Called("invite") /\ ~Bootstrap
    /\ args.content.third_party_invite = Some([ok |-> FALSE])
    /\ TargetCurrent = "leave"
    /\ ret = OkTrue

\* Third-party-invite verification as the specification states it.
ThirdPartyInviteVerified ==
    LET signed == args.content.third_party_invite[1].signed
        current == args.current_third_party_invite IN
    /\ args.target_user = signed.mxid
    /\ current # None
    /\ current[1].state_key = <<signed.token>>
    /\ current[1].sender = args.sender
    /\ current[1].content.ok
    /\ \/ current[1].content.public_key = signed.token
       \/ /\ current[1].content.public_keys # None
          /\ \E i \in DOMAIN current[1].content.public_keys[1] :
                current[1].content.public_keys[1][i] = signed.token

\* C5 as stated: an Invite that carries a third_party_invite is allowed
\* exactly when the target is not banned and the third-party invite
\* verifies, whatever the sender's own membership and level are.
C5_ThirdPartyInviteRuleEveryPrevEvent ==
    (Called("invite") /\ ThirdPartyInviteGiven) =>
        ReturnsTrueIff(TargetCurrent # "ban" /\ ThirdPartyInviteVerified)

\* C5 as amended: the same, for an Invite whose prev_event is not the
\* bootstrap create event.
C5_ThirdPartyInviteRule ==
    (Called("invite") /\ ThirdPartyInviteGiven /\ ~Bootstrap) =>
        ReturnsTrueIff(TargetCurrent # "ban" /\ ThirdPartyInviteVerified)

\* A sender who is not in the room and has no power redeems a third-party
\* invite.
C5_Witness ==
    /\ Called("invite") /\ ~Bootstrap
    /\ ThirdPartyInviteGiven
    /\ StateWellFormed
    /\ ~SenderJoined
    /\ SenderPowerSet = {}
    /\ ret = OkTrue

\* C6: a user's own Leave (not the bootstrap case) is allowed exactly when
\* the user is joined or invited; a banned user and a user without a member
\* event are denied.
C6_SelfLeaveRule ==
    (Called("leave") /\ ~Bootstrap /\ args.sender = args.target_user) =>
        ReturnsTrueIff(TargetCurrent \in {"join", "invite"})

\* A banned user with the highest level is denied their own Leave.
C6_Witness ==
    /\ Called("leave") /\ ~Bootstrap
    /\ args.sender = args.target_user
    /\ StateWellFormed
    /\ TargetCurrent = "ban"
    /\ SenderPowerSet = {100}
    /\ ret = OkFalse

\* C7 as stated: with the create event as prev_event (no prev_events of its
\* own) the call returns Ok(true) for every parseable target membership,
\* whatever the rest of the arguments is.
C7_BootstrapAlwaysAllows ==
    (Returned /\ Bootstrap) => ret = OkTrue

\* C7 as amended: with the create event as prev_event the call returns
\* Ok(true) for every target membership whenever the member, power-levels
\* and join-rules contents of the state deserialize, and the deserialization
\* error when one of them does not.
C7_BootstrapAllowsWellFormed ==
    (Returned /\ Bootstrap) =>
        ret = IF StateWellFormed THEN OkTrue ELSE ErrDeserialization

\* The bootstrap allows a ban sent by a user who is not in the room.
C7_Witness ==
    /\ Returned
    /\ Bootstrap
    /\ StateWellFormed
    /\ args.content.membership = "ban"
    /\ ~SenderJoined
    /\ ret = OkTrue

----------------------------------------------------------------------------
(* The power-levels rules, as the specification of the validator states them *)

\* A call with a previous power-levels event, both contents deserializing.
EditChecked ==
    /\ Returned
    /\ args.previous_power_event # None
    /\ args.previous_power_event[1].content.ok
    /\ args.power_event.content.ok

OldLevels == PowerLevelsFromValue(args.previous_power_event[1].content)
NewLevels == PowerLevelsFromValue(args.power_event.content)

\* The level of a map under a key as a set: empty when there is none.
LevelSet(map, key) == IF key \in DOMAIN map THEN {map[key]} ELSE {}

\* The entry under `key` was added, removed or changed.
EntryDiffers(old, new, key) == LevelSet(old, key) # LevelSet(new, key)

\* The old or the new level under `key` is greater than the sender's power.
EntryAbove(old, new, key) ==
    \E l \in LevelSet(old, key) \cup LevelSet(new, key) : l > args.user_level

\* The edit is denied: Some(false) for a power-levels state event (empty
\* state key), and None, which auth_check denies likewise, for any other.
Denied ==
    ret = IF args.power_event.state_key = <<"">> THEN SomeFalse ELSE NoneResult

\* C8: with a previous power-levels event, an edit is denied when an entry of
\* the users map or of the events map differs between the old and the new
\* content and its old or new level is greater than the sender's power, a
\* missing level being below every level.
C8_MapEntriesAboveSender ==
    (/\ EditChecked
     /\ \/ \E u \in Users : /\ EntryDiffers(OldLevels.users, NewLevels.users, u)
                            /\ EntryAbove(OldLevels.users, NewLevels.users, u)
        \/ \E t \in EventTypes : /\ EntryDiffers(OldLevels.events, NewLevels.events, t)
                                 /\ EntryAbove(OldLevels.events, NewLevels.events, t))
    => Denied

\* A sender with power 50 sets their own users entry to 100 and is denied.
C8_Witness ==
    /\ EditChecked
    /\ args.power_event.state_key = <<"">>
    /\ args.user_level = 50
    /\ LevelSet(OldLevels.users, args.power_event.sender) = {50}
    /\ LevelSet(NewLevels.users, args.power_event.sender) = {100}
    /\ OldLevels.events = NewLevels.events
    /\ ret = SomeFalse

\* Nothing but the sender's own users entry stands against the edit: the
\* other users entries and the events entries are unchanged, and no
\* threshold, old or new, is above the sender's power.
OnlyOwnEntryAtStake ==
    /\ \A u \in Users \ {args.power_event.sender} :
          ~EntryDiffers(OldLevels.users, NewLevels.users, u)
    /\ \A t \in EventTypes : ~EntryDiffers(OldLevels.events, NewLevels.events, t)
    /\ \A name \in ScalarNames :
          OldLevels[name] <= args.user_level /\ NewLevels[name] <= args.user_level

\* C9: with a previous power-levels event, an edit is denied when it
\* changes or removes the users entry of another user whose old level equals
\* the sender's power; the sender's own entry at that level may be changed
\* or removed, to a level that does not exceed the sender's power.
C9_EqualLevelRule ==
    /\ (/\ EditChecked
        /\ \E u \in Users \ {args.power_event.sender} :
              /\ LevelSet(OldLevels.users, u) = {args.user_level}
              /\ EntryDiffers(OldLevels.users, NewLevels.users, u))
       => Denied
    /\ (/\ EditChecked
        /\ args.power_event.state_key = <<"">>
        /\ LevelSet(OldLevels.users, args.power_event.sender) = {args.user_level}
        /\ EntryDiffers(OldLevels.users, NewLevels.users, args.power_event.sender)
        /\ \A l \in LevelSet(NewLevels.users, args.power_event.sender) :
              l <= args.user_level
        /\ OnlyOwnEntryAtStake)
       => ret = SomeTrue

\* A sender removes the entry of another user who is at the sender's level,
\* nothing else being against the edit, and is denied.
C9_Witness ==
    /\ EditChecked
    /\ args.power_event.state_key = <<"">>
    /\ \E u \in Users \ {args.power_event.sender} :
          /\ LevelSet(OldLevels.users, u) = {args.user_level}
          /\ LevelSet(NewLevels.users, u) = {}
    /\ ~EntryDiffers(OldLevels.users, NewLevels.users, args.power_event.sender)
    /\ \A name \in ScalarNames :
          OldLevels[name] <= args.user_level /\ NewLevels[name] <= args.user_level
    /\ ret = SomeFalse

\* C10: with a previous power-levels event, an edit is denied when the old
\* or the new value of users_default, events_default, state_default, ban,
\* redact, kick or invite is greater than the sender's power, changed or
\* not; so no allowed edit leaves one of them above the sender's power.
C10_ThresholdsAboveSender ==
    /\ (EditChecked /\ \E name \in LevelNames :
                          \/ OldLevels[name] > args.user_level
                          \/ NewLevels[name] > args.user_level)
       => Denied
    /\ (Returned /\ args.previous_power_event # None /\ ret = SomeTrue)
       => \A name \in LevelNames : NewLevels[name] <= args.user_level

\* A sender with power 50 leaves a ban level of 100 as it is, changes nothing
\* in the users and events maps, and is denied.
C10_Witness ==
    /\ EditChecked
    /\ args.power_event.state_key = <<"">>
    /\ args.user_level = 50
    /\ OldLevels.ban = 100 /\ NewLevels.ban = 100
    /\ OldLevels.users = NewLevels.users
    /\ OldLevels.events = NewLevels.events
    /\ ret = SomeFalse

----------------------------------------------------------------------------
(* The rules of auth_check, as its specification states them *)

Incoming == args.incoming_event

IsCreate == Incoming.event_type = "m.room.create"
IsMember == Incoming.event_type = "m.room.member"
SpecialCasedAliases ==
    /\ Incoming.event_type = "m.room.aliases"
    /\ args.room_version.special_case_aliases_auth

\* An event that is not m.room.create, not m.room.member and not a
\* special-cased m.room.aliases event.
Ordinary == ~IsCreate /\ ~IsMember /\ ~SpecialCasedAliases

HasCreate == args.state.create # None
StatePowerLevels == args.state.power_levels
PowerLevelsParse == StatePowerLevels # None /\ StatePowerLevels[1].content.ok
StateLevels == PowerLevelsFromValue(StatePowerLevels[1].content)

\* The sender's member event in the state, and the membership it carries.
SenderMember == args.state.members[Incoming.sender]
SenderMembership == SenderMember[1].content.membership
SenderIsJoined == SenderMember # None /\ SenderMembership = "join"

\* The sender's power level: the users entry, else users_default, of power
\* levels that parse; 0 for power levels that do not parse; without power
\* levels 100 for the creator named by the create content and 0 otherwise.
SenderLevel ==
    IF PowerLevelsParse
    THEN IF Incoming.sender \in DOMAIN StateLevels.users
         THEN StateLevels.users[Incoming.sender]
         ELSE StateLevels.users_default
    ELSE IF StatePowerLevels # None THEN 0
    ELSE IF /\ HasCreate
            /\ args.state.create[1].content.ok
            /\ args.state.create[1].content.creator = Incoming.sender
         THEN 100
         ELSE 0

\* The level needed to send the incoming event: the events entry of its
\* type, else state_default for a state event and events_default for any
\* other; without power levels that parse, 50 for a state event and 0 for
\* any other.
SendLevel ==
    IF PowerLevelsParse
    THEN IF Incoming.event_type \in DOMAIN StateLevels.events
         THEN StateLevels.events[Incoming.event_type]
         ELSE IF Incoming.state_key # None THEN StateLevels.state_default
         ELSE StateLevels.events_default
    ELSE IF Incoming.state_key # None THEN 50 ELSE 0

\* A content that auth_check deserializes before the send gate does not
\* deserialize: the sender's membership, or for an m.room.third_party_invite
\* event of a joined sender the power levels.
FailsBeforeSendGate ==
    /\ HasCreate
    /\ SenderMember # None
    /\ \/ SenderMembership = Malformed
       \/ /\ SenderMembership = "join"
          /\ Incoming.event_type = "m.room.third_party_invite"
          /\ StatePowerLevels # None
          /\ ~PowerLevelsParse

\* C11 as stated: an event that is not create, not member and not a
\* special-cased aliases event is answered Ok(false) whenever the sender's
\* power level is below the level needed to send it, whatever the other
\* inputs are.
C11_SendGateEveryInput ==
    (Returned /\ Ordinary /\ SenderLevel < SendLevel) => ret = OkFalse

\* C11 as amended: such an event is never allowed when the sender's power
\* level is below the level needed to send it; it is answered Ok(false),
\* or the deserialization error when the sender's member content, or for an
\* m.room.third_party_invite event the power-levels content, does not
\* deserialize.
C11_SendGate ==
    (Returned /\ Ordinary /\ SenderLevel < SendLevel) =>
        ret = IF FailsBeforeSendGate THEN ErrDeserialization ELSE OkFalse

\* A joined sender at level 50 is denied a state event whose type needs 100.
C11_Witness ==
    /\ Returned
    /\ Incoming.event_type = "m.room.name"
    /\ Incoming.state_key = <<"">>
    /\ HasCreate
    /\ SenderIsJoined
    /\ SenderLevel = 50
    /\ SendLevel = 100
    /\ ret = OkFalse

\* The state key begins with '@' and is not the sender's user id.
KeyOfAnother ==
    /\ Incoming.state_key # None
    /\ Incoming.state_key[1] \in {"@alice:a", "@bob:b"}
    /\ Incoming.state_key[1] # Incoming.sender

\* C12: only events that are not create, not member and not special-cased
\* aliases reach the send gate, and one that reaches it with a state key
\* that begins with '@' and is not the sender's user id is answered
\* Ok(false) there, however high the sender's power level is.
C12_StateKeyBinding ==
    /\ [](pc = "can_send_event" => Ordinary)
    /\ [][(pc = "can_send_event" /\ KeyOfAnother) =>
             (pc' = "done" /\ ret' = OkFalse)]_vars

\* A joined sender at level 100 is denied a state event, which needs no more
\* than 100, under the user id of another user.
C12_Witness ==
    /\ Returned
    /\ Incoming.event_type = "m.room.name"
    /\ KeyOfAnother
    /\ HasCreate
    /\ SenderIsJoined
    /\ SenderLevel = 100
    /\ SendLevel <= 100
    /\ ret = OkFalse

\* C13: an event that is not create, not member and not a special-cased
\* aliases event is answered Ok(false) when the state has no member event
\* for the sender, or has one whose membership is not Join, even when the
\* power levels give the sender the highest level.
C13_SenderMustBeJoined ==
    (/\ Returned
     /\ Ordinary
     /\ \/ SenderMember = None
        \/ SenderMembership \in MembershipStates \ {"join"})
    => ret = OkFalse

\* An invited sender with a users entry of 100 is denied a message that
\* needs no power.
C13_Witness ==
    /\ Returned
    /\ Incoming.event_type = "m.room.message"
    /\ HasCreate
    /\ SenderMember # None
    /\ SenderMembership = "invite"
    /\ SenderLevel = 100
    /\ SendLevel = 0
    /\ ret = OkFalse

\* C14: an event other than m.room.create and other than a special-cased
\* m.room.aliases event is answered Ok(false) when the state has no
\* (m.room.create, "") event; member events included, and in the first step
\* of auth_check, before any membership or power rule.
C14_CreateEventRequired ==
    /\ []((Returned /\ ~IsCreate /\ ~SpecialCasedAliases /\ ~HasCreate)
            => ret = OkFalse)
    /\ [][(pc = "call" /\ ~IsCreate /\ ~SpecialCasedAliases /\ ~HasCreate)
            => (pc' = "done" /\ ret' = OkFalse)]_vars

\* Without a create event a join is denied although the sender's member
\* content, which the membership rules would fail on, does not deserialize.
C14_Witness ==
    /\ Returned
    /\ IsMember
    /\ ~HasCreate
    /\ Incoming.state_key = <<Incoming.sender>>
    /\ Incoming.content.membership = <<"join">>
    /\ SenderMember # None
    /\ SenderMembership = Malformed
    /\ ret = OkFalse

\* The server name of a user id, room id or event id that has one.
ServerOf(id) ==
    CHOOSE s \in {"a", "b"} :
        \E prefix \in {"@alice:", "@bob:", "!room:", "$event:"} : id = prefix \o s

CreateAllowed ==
    /\ Incoming.prev_events = 0
    /\ ServerOf(Incoming.room_id) = ServerOf(Incoming.sender)
    /\ \/ Incoming.content.room_version = None
       \/ Incoming.content.room_version[1] \in {"1", "2", "3", "4", "5", "6"}
    /\ Incoming.content.creator # None

\* C15: an m.room.create event is answered Ok(true) when it has no
\* prev_events, the server names of its room id and its sender are equal, its
\* content.room_version is absent or a known room version, and its
\* content.creator is present; otherwise it is answered Ok(false).
C15_CreateRule ==
    (Returned /\ IsCreate) => ret = IF CreateAllowed THEN OkTrue ELSE OkFalse

\* A create event without a room_version is allowed in an empty state.
C15_Witness ==
    /\ Returned
    /\ IsCreate
    /\ Incoming.content.room_version = None
    /\ ~HasCreate
    /\ ret = OkTrue

KeyIsSendersServer ==
    /\ Incoming.state_key # None
    /\ Incoming.state_key[1] = ServerOf(Incoming.sender)

\* C16 as stated: with special_case_aliases_auth set, an m.room.aliases
\* event is answered Ok(true) when its state key is present and equals the
\* server name of its sender and Ok(false) otherwise, whatever the state
\* holds.
C16_AliasesRuleEveryState ==
    (Returned /\ SpecialCasedAliases) =>
        ret = IF KeyIsSendersServer THEN OkTrue ELSE OkFalse

\* C16 as amended: with special_case_aliases_auth set, an m.room.aliases
\* event is answered Ok(true) when the state has a create event and the
\* event's state key is present and equals the server name of its sender,
\* and Ok(false) otherwise; the sender's membership, the power levels and
\* the rest of the state are not consulted.
C16_AliasesRule ==
    (Returned /\ SpecialCasedAliases) =>
        ret = IF HasCreate /\ KeyIsSendersServer THEN OkTrue ELSE OkFalse

\* A sender who has no member event is allowed the aliases of their server.
C16_Witness ==
    /\ Returned
    /\ SpecialCasedAliases
    /\ HasCreate
    /\ KeyIsSendersServer
    /\ SenderMember = None
    /\ ret = OkTrue

\* The server name of an event id, as a set: empty for an id without one.
ServerSet(id) == IF id = "$hash" THEN {} ELSE {ServerOf(id)}

\* The redact level auth_check computes: 50 without a power-levels event;
\* with one, 0 when its content has no redact key, the key's number, and 50
\* for a key that is not a number.
RedactLevel ==
    IF StatePowerLevels = None THEN 50
    ELSE LET content == StatePowerLevels[1].content IN
         IF content.redact = None THEN 0
         ELSE IF content.ok THEN content.redact[1]
         ELSE IF content.redact[1] = None THEN 50
         ELSE content.redact[1][1]

ExtraRedactionCheck ==
    /\ args.room_version.extra_redaction_checks
    /\ Incoming.event_type = "m.room.redaction"

RedactionAllowed ==
    \/ SenderLevel >= RedactLevel
    \/ /\ Incoming.redacts # None
       /\ ServerSet(Incoming.event_id) = ServerSet(Incoming.redacts[1])

\* C17: with extra_redaction_checks set, an m.room.redaction event that
\* has passed the membership and send-level gates is allowed exactly when
\* the sender's power is at least the redact level, or its redacts field is
\* present and names an event of the server of its own event id; with too
\* little power and redacts absent or of another server it is denied.  With
\* the flag off an event that has passed the gates is allowed without a
\* redaction check.
C17_RedactionRule ==
    [][pc = "check_redaction" =>
          ret' = IF ExtraRedactionCheck /\ ~RedactionAllowed THEN OkFalse
                 ELSE OkTrue]_vars

\* A redaction without a redacts field, from a sender whose power is below
\* the redact level, is allowed: its event id has no server name.
C17_Witness ==
    /\ Returned
    /\ ExtraRedactionCheck
    /\ HasCreate
    /\ SenderIsJoined
    /\ SenderLevel < RedactLevel
    /\ Incoming.redacts = None
    /\ Incoming.event_id = "$hash"
    /\ ret = OkTrue

\* C18: auth_check derives a sender power level for events that are not
\* create, not member and not special-cased aliases events only, and derives
\* it as: the sender's users entry of power levels that parse, their
\* users_default without such an entry, 0 for a power-levels event that does
\* not parse, and without a power-levels event 100 for the creator named in
\* the create content and 0 for everybody else.
C18_SenderPowerLevel ==
    /\ [](pc = "sender_power_level" => Ordinary)
    /\ [][pc = "sender_power_level" =>
             locals'.sender_power_level =
                 CASE PowerLevelsParse /\ Incoming.sender \in DOMAIN StateLevels.users ->
                          StateLevels.users[Incoming.sender]
                   [] PowerLevelsParse /\ Incoming.sender \notin DOMAIN StateLevels.users ->
                          StateLevels.users_default
                   [] StatePowerLevels # None /\ ~PowerLevelsParse -> 0
                   [] StatePowerLevels = None ->
                          IF /\ args.state.create[1].content.ok
                             /\ args.state.create[1].content.creator = Incoming.sender
                          THEN 100 ELSE 0]_vars

\* In a room without power levels the creator is given 100.
C18_Witness ==
    /\ pc = "third_party_invite"
    /\ StatePowerLevels = None
    /\ args.state.create[1].content.ok
    /\ args.state.create[1].content.creator = Incoming.sender
    /\ locals.sender_power_level = 100

IsThirdPartyInvite == Incoming.event_type = "m.room.third_party_invite"

\* The invite level: that of the power-levels content, 50 without a
\* power-levels event.
InviteThreshold == IF StatePowerLevels = None THEN 50 ELSE StateLevels.invite

\* C19: an m.room.third_party_invite event is allowed only if the state's
\* power levels, if any, parse, the sender's power level is at least the
\* invite level, and it is at least the level needed to send the event as
\* well.
C19_ThirdPartyInviteThreshold ==
    (Returned /\ IsThirdPartyInvite /\ ret = OkTrue) =>
        /\ StatePowerLevels = None \/ PowerLevelsParse
        /\ SenderLevel >= InviteThreshold
        /\ SenderLevel >= SendLevel

\* A sender who has the invite level, but not the level the power levels ask
\* for sending m.room.third_party_invite events, is denied.
C19_Witness ==
    /\ Returned
    /\ IsThirdPartyInvite
    /\ HasCreate
    /\ SenderIsJoined
    /\ PowerLevelsParse
    /\ SenderLevel >= InviteThreshold
    /\ SenderLevel < SendLevel
    /\ ret = OkFalse

\* The incoming member event has a membership key whose value cannot be
\* parsed into a membership.
MembershipUnparsed ==
    /\ IsMember
    /\ Incoming.content.membership = <<Malformed>>

IsPowerLevels == Incoming.event_type = "m.room.power_levels"

\* The sender's member content, if there is one, deserializes.
SenderMemberParses == SenderMember = None \/ SenderMembership # Malformed

\* C21: when the content of the incoming power-levels event, or that of the
\* power-levels event of the state, cannot be parsed as a power-levels
\* record, auth_check answers Ok(false); it neither crashes nor returns a
\* fatal error.
C21_UnparsedPowerLevelsDenied ==
    (/\ Returned
     /\ IsPowerLevels
     /\ SenderMemberParses
     /\ \/ ~Incoming.content.ok
        \/ StatePowerLevels # None /\ ~PowerLevelsParse)
    => ret = OkFalse

\* A power-levels state event whose content does not parse, sent by a joined
\* user who may send it in a room that has power levels, crashes the call.
C21_Witness ==
    /\ Returned
    /\ IsPowerLevels
    /\ Incoming.state_key = <<"">>
    /\ ~Incoming.content.ok
    /\ PowerLevelsParse
    /\ SenderIsJoined
    /\ SenderLevel >= SendLevel
    /\ ret = Panic

\* Every content involved is well formed: the incoming content parses for
\* its kind, the member, power-levels, join-rules and create contents of the
\* state parse, and the state key of a member event is a user id.
AllWellFormed ==
    /\ IsPowerLevels => Incoming.content.ok
    /\ IsMember => /\ Incoming.content.membership # <<Malformed>>
                   /\ \/ Incoming.content.third_party_invite = None
                      \/ Incoming.content.third_party_invite[1].ok
                   /\ Incoming.state_key = None \/ Incoming.state_key[1] \in Users
    /\ IsCreate => Incoming.content.room_version # <<Malformed>>
    /\ \A u \in Users :
          \/ args.state.members[u] = None
          \/ args.state.members[u][1].content.membership \in MembershipStates
    /\ StatePowerLevels = None \/ PowerLevelsParse
    /\ \/ args.state.join_rules = None
       \/ args.state.join_rules[1].content.join_rule \in JoinRules
    /\ ~HasCreate \/ args.state.create[1].content.ok

\* C22: when every content involved is well formed, auth_check answers
\* Ok(true) or Ok(false): a missing auth event, a wrong sender and
\* insufficient power are Ok(false), never an error or a crash.
C22_WellFormedGivesVerdict ==
    /\ (Returned /\ AllWellFormed) => ret \in {OkTrue, OkFalse}
    /\ (Returned /\ AllWellFormed /\ ~IsCreate /\ ~HasCreate) => ret = OkFalse
    /\ (Returned /\ AllWellFormed /\ Ordinary /\ SenderMember = None) => ret = OkFalse
    /\ (Returned /\ AllWellFormed /\ Ordinary /\ SenderLevel < SendLevel)
          => ret = OkFalse

\* A user without a member event, in a room with no power levels, is denied
\* a state event.
C22_Witness ==
    /\ Returned
    /\ AllWellFormed
    /\ Incoming.event_type = "m.room.name"
    /\ HasCreate
    /\ SenderMember = None
    /\ StatePowerLevels = None
    /\ ret = OkFalse

MembershipParses ==
    /\ Incoming.content.membership # None
    /\ Incoming.content.membership[1] \in MembershipStates

\* C23: an incoming m.room.member event with a membership that parses, in a
\* room with a create event, whose state key is not a user id is answered
\* with the fatal error InvalidPdu in the first step of auth_check, whatever
\* the membership rules would find in the state; a member event without a
\* state key is answered Ok(false).
C23_MemberStateKey ==
    /\ []((/\ Returned /\ IsMember /\ HasCreate /\ MembershipParses
           /\ Incoming.state_key # None
           /\ Incoming.state_key[1] \notin Users)
          => ret = ErrInvalidPdu)
    /\ []((Returned /\ IsMember /\ Incoming.state_key = None) => ret = OkFalse)
    /\ [][(pc = "call" /\ IsMember) => pc' = "done"]_vars

\* A member event with the state key "" gets InvalidPdu although the
\* sender's member content, which the membership rules would fail on, does
\* not deserialize.
C23_Witness ==
    /\ Returned
    /\ IsMember
    /\ HasCreate
    /\ MembershipParses
    /\ Incoming.state_key = <<"">>
    /\ SenderMember # None
    /\ SenderMembership = Malformed
    /\ ret = ErrInvalidPdu

----------------------------------------------------------------------------
(* The helper functions, as their contracts state them *)

CalledFunction(name) == Returned /\ args.function = name

\* How often `key` occurs in the sequence.
Occurrences(auth_types, key) ==
    Cardinality({i \in 1..Len(auth_types) : auth_types[i] = key})

BaseThree ==
    << <<"m.room.power_levels", "">>, <<"m.room.member", args.sender>>,
       <<"m.room.create", "">> >>

\* C24: auth_types_for_event returns the empty sequence for m.room.create;
\* for every other kind the result starts with (m.room.power_levels, ""),
\* (m.room.member, sender), (m.room.create, "") in that order, and each of
\* the three occurs exactly once in the whole result.
C24_BaseAuthTypes ==
    CalledFunction("auth_types_for_event") =>
        IF args.kind = "m.room.create" THEN ret = <<>>
        ELSE /\ Len(ret) >= 3
             /\ SubSeq(ret, 1, 3) = BaseThree
             /\ \A i \in 1..3 : Occurrences(ret, BaseThree[i]) = 1

\* A member event whose sender is its target: the result is longer than the
\* base three and names the sender once.
C24_Witness ==
    /\ CalledFunction("auth_types_for_event")
    /\ args.kind = "m.room.member"
    /\ args.state_key = Some(args.sender)
    /\ args.content.membership = Some("join")
    /\ Len(ret) = 4
    /\ Occurrences(ret, <<"m.room.member", args.sender>>) = 1

\* A member event with a state key and a membership that parses.
MemberWithMembership ==
    /\ args.kind = "m.room.member"
    /\ args.state_key # None
    /\ args.content.membership \notin {None, Some(Malformed)}

InviteParses ==
    /\ args.content.third_party_invite # None
    /\ unwrap(args.content.third_party_invite).ok

\* The keys a member event adds to the base three, in order, none of them
\* twice.
MemberKeys ==
    LET membership == unwrap(args.content.membership)
        target == <<"m.room.member", unwrap(args.state_key)>> IN
    (IF membership \in {"join", "invite"}
     THEN << <<"m.room.join_rules", "">> >> ELSE <<>>)
    \o (IF \E i \in 1..3 : BaseThree[i] = target THEN <<>> ELSE <<target>>)
    \o (IF membership = "invite" /\ InviteParses
        THEN << <<"m.room.third_party_invite",
                  unwrap(args.content.third_party_invite).signed.token>> >>
        ELSE <<>>)

\* C25: for a member event with a state key and a parseable membership the
\* result is the base three followed by (m.room.join_rules, "") when the
\* membership is join or invite, (m.room.member, state_key) unless already
\* there, and (m.room.third_party_invite, token) when the membership is
\* invite and content.third_party_invite parses; no pair occurs twice; a
\* member event without state key or without parseable membership gets
\* exactly the base three.
C25_MemberAuthTypes ==
    (CalledFunction("auth_types_for_event") /\ args.kind = "m.room.member") =>
        /\ ret = IF MemberWithMembership THEN BaseThree \o MemberKeys ELSE BaseThree
        /\ \A i, j \in 1..Len(ret) : ret[i] = ret[j] => i = j

\* An invite with a third-party invite that parses, from a sender to
\* another user: all three keys are appended.
C25_Witness ==
    /\ CalledFunction("auth_types_for_event")
    /\ MemberWithMembership
    /\ args.content.membership = Some("invite")
    /\ InviteParses
    /\ args.state_key # Some(args.sender)
    /\ Len(ret) = 6
    /\ ret[6] = <<"m.room.third_party_invite", "T">>

\* The current third-party-invite event, when one is supplied.
CurrentInvite == unwrap(args.current_third_party_invite)

\* Some entry of public_keys, or the top-level public_key, is the token.
KeyMatchesToken ==
    \/ /\ CurrentInvite.content.public_keys # None
       /\ \E i \in DOMAIN unwrap(CurrentInvite.content.public_keys) :
             unwrap(CurrentInvite.content.public_keys)[i] = args.tp_id.token
    \/ CurrentInvite.content.public_key = args.tp_id.token

\* C26: verify_third_party_invite returns true exactly when the target user
\* is the invite's signed.mxid, a current third-party-invite event is given
\* whose state key is signed.token and whose sender is the inviting sender,
\* its content parses, and a public key of it equals the token; a token "T"
\* against an event with state key "U" is denied.
C26_VerifyThirdPartyInvite ==
    CalledFunction("verify_third_party_invite") =>
        /\ ret = (/\ args.target_user = Some(args.tp_id.mxid)
                  /\ args.current_third_party_invite # None
                  /\ CurrentInvite.state_key = Some(args.tp_id.token)
                  /\ CurrentInvite.sender = args.sender
                  /\ CurrentInvite.content.ok
                  /\ KeyMatchesToken)
        /\ (/\ args.tp_id.token = "T"
            /\ args.current_third_party_invite # None
            /\ CurrentInvite.state_key = Some("U")) => ret = FALSE

\* Token "T" against an event with state key "U" that is otherwise in
\* order, its public keys naming "T".
C26_Witness ==
    /\ CalledFunction("verify_third_party_invite")
    /\ args.target_user = Some(args.tp_id.mxid)
    /\ args.tp_id.token = "T"
    /\ args.current_third_party_invite # None
    /\ CurrentInvite.state_key = Some("U")
    /\ CurrentInvite.sender = args.sender
    /\ CurrentInvite.content.ok
    /\ KeyMatchesToken
    /\ ret = FALSE

\* The power-levels content get_send_level is given, deserialized.
GivenLevelsParse == args.power_lvl # None /\ unwrap(args.power_lvl).content.ok
GivenLevels == PowerLevelsFromValue(unwrap(args.power_lvl).content)

\* C27: get_send_level returns events[event_type] when the power-levels
\* content parses and has that entry, else its state_default for an event
\* with a state key and its events_default for one without; with the
\* power-levels event absent or unparseable it returns 50 with a state key
\* and 0 without.
C27_GetSendLevel ==
    CalledFunction("get_send_level") =>
        ret = IF GivenLevelsParse
              THEN IF args.e_type \in DOMAIN GivenLevels.events
                   THEN GivenLevels.events[args.e_type]
                   ELSE IF args.state_key # None THEN GivenLevels.state_default
                   ELSE GivenLevels.events_default
              ELSE IF args.state_key # None THEN 50 ELSE 0

\* No entry for the type, no state key, state_default and events_default
\* set apart: the events default is returned.
C27_Witness ==
    /\ CalledFunction("get_send_level")
    /\ GivenLevelsParse
    /\ args.e_type \notin DOMAIN GivenLevels.events
    /\ args.state_key = None
    /\ unwrap(args.power_lvl).content.state_default = Some(50)
    /\ unwrap(args.power_lvl).content.events_default = Some(100)
    /\ ret = 100

\* m.federate in the content of the (m.room.create, "") event of the map;
\* None when the event or the field is absent.
Federate ==
    IF <<"m.room.create", "">> \in DOMAIN args.auth_events
    THEN args.auth_events[<<"m.room.create", "">>].content.federate
    ELSE None

\* C28: can_federate returns the boolean value of m.federate of the
\* (m.room.create, "") event: true for the boolean true, false for the
\* boolean false, false when the event or the field is absent.
C28_CanFederate ==
    CalledFunction("can_federate") =>
        /\ Federate = Some(json_bool(TRUE)) => ret = TRUE
        /\ Federate = Some(json_bool(FALSE)) => ret = FALSE
        /\ Federate = None => ret = FALSE

\* A create event whose m.federate is the boolean true, answered false.
C28_Witness ==
    /\ CalledFunction("can_federate")
    /\ Federate = Some(json_bool(TRUE))
    /\ ret = FALSE

----------------------------------------------------------------------------
(* auth_check as a function of its arguments *)

ReturnedAgain == Returned /\ "first" \in DOMAIN locals

----------------------------------------------------------------------------
(* Power-levels events in auth_check *)

\* The power-levels event has no state key, or one that is not "".
BadPowerLevelsKey == IsPowerLevels /\ Incoming.state_key # Some("")

\* C31: a power-levels event whose state key is absent or is not the empty
\* string is denied: check_power_levels returns None for it, which
\* auth_check answers with Ok(false), also for a sender of sufficient power
\* in a room without power levels.
C31_PowerLevelsStateKey ==
    /\ []((Returned /\ BadPowerLevelsKey /\ SenderMemberParses) => ret = OkFalse)
    /\ [][(pc = "check_power_levels" /\ BadPowerLevelsKey)
            => (pc' = "done" /\ ret' = OkFalse)]_vars

\* The creator of a room without power levels sends a power-levels event
\* without state key.
C31_Witness ==
    /\ Returned
    /\ BadPowerLevelsKey
    /\ Incoming.state_key = None
    /\ StatePowerLevels = None
    /\ SenderIsJoined
    /\ SenderLevel = 100
    /\ "sender_power_level" \in DOMAIN locals
    /\ ret = OkFalse

\* A power-levels event with state key "" in a room without power levels.
FirstPowerLevels ==
    IsPowerLevels /\ Incoming.state_key = Some("") /\ StatePowerLevels = None

\* The sender is the creator the create event names.
SenderIsCreator ==
    /\ HasCreate
    /\ args.state.create[1].content.ok
    /\ args.state.create[1].content.creator = Incoming.sender

\* C32: in a room without power levels a power-levels event with state key
\* "" is allowed, whatever its content, exactly when its sender is joined
\* and is the creator the create event names; any other sender comes to the
\* send gate with power 0 and is denied there.
C32_FirstPowerLevels ==
    /\ []((Returned /\ FirstPowerLevels)
            => (ret = OkTrue <=> SenderIsJoined /\ SenderIsCreator))
    /\ [][(pc = "can_send_event" /\ FirstPowerLevels /\ ~SenderIsCreator)
            => /\ locals.sender_power_level = 0
               /\ pc' = "done"
               /\ ret' = OkFalse]_vars

\* The creator installs first power levels whose content is no power-levels
\* record.
C32_Witness ==
    /\ Returned
    /\ FirstPowerLevels
    /\ SenderIsJoined
    /\ SenderIsCreator
    /\ ~Incoming.content.ok
    /\ ret = OkTrue

----------------------------------------------------------------------------
(* The notifications level in check_power_levels *)

LimitNotifications == args.room_version.limit_notifications_power_levels

NotificationsDiffer == OldLevels.notifications_room # NewLevels.notifications_room

\* One of the other rules of check_power_levels denies the edit.
DeniedOtherwise ==
    \/ users_denied(OldLevels, NewLevels, args.power_event.sender, args.user_level)
    \/ events_denied(OldLevels, NewLevels, args.user_level)
    \/ levels_denied(OldLevels, NewLevels, args.user_level)

\* C33: with a previous power-levels event, in a room version that limits
\* the notifications level, an edit that changes notifications.room is
\* denied when the old or the new value is above the sender's power; in a
\* room version that does not, no value or change of notifications.room
\* makes an edit denied.
C33_NotificationsLimit ==
    /\ (/\ EditChecked /\ LimitNotifications /\ NotificationsDiffer
        /\ \/ OldLevels.notifications_room > args.user_level
           \/ NewLevels.notifications_room > args.user_level)
       => Denied
    /\ (/\ EditChecked /\ ~LimitNotifications
        /\ args.power_event.state_key = <<"">>
        /\ ~DeniedOtherwise)
       => ret = SomeTrue

\* A sender with power 50 raises notifications.room from 50 to 100 in a
\* room version without the limit, and is allowed.
C33_Witness ==
    /\ EditChecked
    /\ ~LimitNotifications
    /\ args.power_event.state_key = <<"">>
    /\ args.user_level = 50
    /\ OldLevels.notifications_room = 50
    /\ NewLevels.notifications_room = 100
    /\ ret = SomeTrue

----------------------------------------------------------------------------
(* Memberships without a rule *)

\* C34: a member event whose membership is knock, the one variant besides
\* join, invite, leave and ban, is denied by valid_membership_change
\* for every sender, target and state, unless the bootstrap applies: it is
\* never allowed, and the answer is Ok(false) whenever the state
\* deserializes.
C34_KnockDenied ==
    (Called("knock") /\ ~Bootstrap) =>
        /\ ret # OkTrue
        /\ StateWellFormed => ret = OkFalse

\* A joined user knocks for themself, no create event before the knock.
C34_Witness ==
    /\ Called("knock")
    /\ ~Bootstrap
    /\ StateWellFormed
    /\ args.sender = args.target_user
    /\ SenderJoined
    /\ ret = OkFalse

----------------------------------------------------------------------------
(* The room over the events it takes up *)

\* The membership of user u in the state: leave without a member event.
RoomMembership(state, u) ==
    IF state.members[u] = None THEN "leave" ELSE state.members[u][1].content.membership

RoomLevelsOf(state) == PowerLevelsFromValue(state.power_levels[1].content)

\* users[u] if present, otherwise users_default.
EffectiveLevel(state, u) ==
    IF u \in DOMAIN RoomLevelsOf(state).users THEN RoomLevelsOf(state).users[u]
    ELSE RoomLevelsOf(state).users_default

\* The allowed member event for user u that the state is about to take up.
MemberEventFor(u) ==
    /\ pc = "done"
    /\ ret = OkTrue
    /\ IsMember
    /\ Incoming.state_key = Some(u)

\* The sender may lift a ban of u: another user, joined, with a power of at
\* least the ban and the kick level and above the level the users map gives
\* u, if it gives one.
MayUnban(u) ==
    /\ Incoming.sender # u
    /\ RoomMembership(args.state, Incoming.sender) = "join"
    /\ EffectiveLevel(args.state, Incoming.sender) >= RoomLevelsOf(args.state).ban
    /\ EffectiveLevel(args.state, Incoming.sender) >= RoomLevelsOf(args.state).kick
    /\ u \in DOMAIN RoomLevelsOf(args.state).users =>
           RoomLevelsOf(args.state).users[u]
               < EffectiveLevel(args.state, Incoming.sender)

----------------------------------------------------------------------------
(* Senders who are not joined *)

\* The event is a member event for a user other than its sender.
TargetsAnother ==
    /\ IsMember
    /\ Incoming.state_key # None
    /\ Incoming.state_key # Some(Incoming.sender)

\* prev_event is the create event, the first event of the room.
PrevIsCreate ==
    /\ args.prev_event # None
    /\ args.prev_event[1].event_type = "m.room.create"
    /\ args.prev_event[1].prev_events = 0

\* The invite carries a third-party invite signed for its target, and the
\* third-party-invite event passed in has the token as state key, the
\* sender as sender and the token among its public keys.
ValidThirdPartyInvite ==
    /\ Incoming.content.membership = Some("invite")
    /\ Incoming.content.third_party_invite # None
    /\ Incoming.content.third_party_invite[1].ok
    /\ LET signed == Incoming.content.third_party_invite[1].signed
           current == args.current_third_party_invite IN
       /\ Incoming.state_key = Some(signed.mxid)
       /\ current # None
       /\ current[1].state_key = Some(signed.token)
       /\ current[1].sender = Incoming.sender
       /\ current[1].content.ok
       /\ \/ current[1].content.public_key = signed.token
          \/ /\ current[1].content.public_keys # None
             /\ \E i \in DOMAIN current[1].content.public_keys[1] :
                   current[1].content.public_keys[1][i] = signed.token

\* C36: a sender who is not joined gets no member event for another user
\* allowed, except by a valid third-party invite or with the create event
\* as prev_event, and no other event allowed except m.room.create and a
\* special-cased m.room.aliases.
C36_NotJoinedSender ==
    (Returned /\ ret = OkTrue /\ ~SenderIsJoined) =>
        /\ TargetsAnother => (ValidThirdPartyInvite \/ PrevIsCreate)
        /\ ~IsMember => (IsCreate \/ SpecialCasedAliases)

\* A user who is not in the room invites another by a valid third-party
\* invite.
C36_Witness ==
    /\ Returned
    /\ ret = OkTrue
    /\ SenderMember = None
    /\ TargetsAnother
    /\ ValidThirdPartyInvite
    /\ ~PrevIsCreate

\* The allowed power-levels event that the state is about to take up.
LevelsEdit == pc = "done" /\ ret = OkTrue /\ IsPowerLevels

\* The greatest effective level of a user under the state.
GreatestLevel(state) ==
    CHOOSE l \in {EffectiveLevel(state, u) : u \in Users} :
        \A u \in Users : EffectiveLevel(state, u) <= l

\* C37: over the power-levels events auth_check allows in a room that has
\* power levels, no sender raises their own power: the sender's effective
\* level (users entry, else users_default) under the new content is at most
\* the one under the old content, and the greatest effective level of any
\* user never grows.
C37_NoSelfRaise ==
    [][LevelsEdit =>
          /\ args'.state.power_levels = Some([content |-> Incoming.content])
          /\ EffectiveLevel(args'.state, Incoming.sender)
                 <= EffectiveLevel(args.state, Incoming.sender)
          /\ GreatestLevel(args'.state) <= GreatestLevel(args.state)]_vars

\* An allowed edit in which a sender of level 100 takes another user's
\* entry from 50 to 100.
C37_Witness ==
    /\ LevelsEdit
    /\ Incoming.sender = "@alice:a"
    /\ EffectiveLevel(args.state, "@alice:a") = 100
    /\ EffectiveLevel(args.state, "@bob:b") = 50
    /\ "@bob:b" \in DOMAIN Incoming.content.users
    /\ Incoming.content.users["@bob:b"] = 100

----------------------------------------------------------------------------
(* Powers in valid_membership_change *)

\* users[u] if present, otherwise users_default, of the state's levels.
Effective(u) ==
    IF u \in DOMAIN Levels.users THEN Levels.users[u] ELSE Levels.users_default

\* A kick (a leave for another user) or a ban.
KickOrBan ==
    \/ Called("leave") /\ args.sender # args.target_user
    \/ Called("ban")

\* C38: a joined sender never kicks or bans a target whose effective power
\* level (users entry, else users_default) is greater than or equal to the
\* sender's effective power level; the create event as prev_event left
\* aside.
C38_KickBanBelowSender ==
    (/\ KickOrBan /\ ~Bootstrap /\ StateWellFormed /\ SenderJoined
     /\ Effective(args.target_user) >= Effective(args.sender))
    => ret = OkFalse

\* A joined sender bans a user of the same effective level: neither has a
\* users entry.
C38_Witness ==
    /\ Called("ban")
    /\ ~Bootstrap
    /\ StateWellFormed
    /\ SenderJoined
    /\ args.sender # args.target_user
    /\ DOMAIN Levels.users = {}
    /\ Effective(args.target_user) = Effective(args.sender)
    /\ ret = OkTrue

\* The member event of the target in the state, and its membership.
TargetMember == args.state.members[Incoming.state_key[1]]
TargetMembership ==
    IF TargetMember = None THEN "leave" ELSE TargetMember[1].content.membership

\* An invite, a kick or a ban of another user that nothing but the sender's
\* power stands against: no third-party invite, and the target neither
\* joined nor banned.
NeedsPowerOnly ==
    /\ TargetsAnother
    /\ Incoming.state_key[1] \in Users
    /\ Incoming.content.membership \in {Some("invite"), Some("leave"), Some("ban")}
    /\ Incoming.content.third_party_invite = None
    /\ TargetMembership \in {"leave", "invite"}
    /\ ~PrevIsCreate

\* C39: the sender power that authorizes membership changes is the one
\* auth_check uses for other events: in a room without power levels the
\* joined creator counts as 100 for member events too, and so can invite,
\* kick and ban, the thresholds being 50.
C39_CreatorPowerForMembers ==
    (/\ Returned /\ IsMember /\ NeedsPowerOnly
     /\ StatePowerLevels = None
     /\ SenderIsJoined /\ SenderIsCreator)
    => ret = OkTrue

\* The joined creator of a room without power levels bans another user and
\* is denied; for any other event the same sender has level 100.
C39_Witness ==
    /\ Returned
    /\ IsMember
    /\ NeedsPowerOnly
    /\ Incoming.content.membership = Some("ban")
    /\ StatePowerLevels = None
    /\ SenderIsJoined
    /\ SenderIsCreator
    /\ SenderLevel = 100
    /\ ret = OkFalse

----------------------------------------------------------------------------
(* What auth_check reads of the state *)

ReturnedOnOther == Returned /\ "on_first_snapshot" \in DOMAIN locals

\* C40: the result of auth_check depends on the state only through the
\* entries under the keys auth_types_for_event lists for the incoming
\* event: on a snapshot that agrees with the first on those keys, whatever
\* else it holds, the call returns what it returned on the first.
C40_ReadsOnlyAuthTypes == ReturnedOnOther => ret = locals.on_first_snapshot

\* A kick allowed on the first snapshot ends in the deserialization error
\* on one that differs in the join rules, which are not among the keys of
\* a leave.
C40_Witness ==
    /\ ReturnedOnOther
    /\ IsMember
    /\ Incoming.content.membership = Some("leave")
    /\ <<"m.room.join_rules", "">> \notin auth_keys(Incoming)
    /\ args.state.join_rules = jr_event(Malformed)
    /\ locals.on_first_snapshot \in {OkTrue, OkFalse}
    /\ ret = ErrDeserialization

====
